---- MODULE Spec2Model ----
(***************************************************************************)
(* Model of GooseWebLanguageModel (src/src/goose-web-language-model.ts).    *)
(*                                                                         *)
(* streamResponse: the WebSocket callbacks that turn inbound Goose messages *)
(* into AI SDK stream parts, the queue they are pushed to, the response     *)
(* timeout and the async generator loop that drains the queue.              *)
(* generateResponse: the callbacks that accumulate the text and settle the  *)
(* promise doGenerate awaits.  createWebSocket, ensureSession and the       *)
(* sequence doGenerate and doStream run them in.                            *)
(*                                                                         *)
(* Every callback of the JavaScript event loop runs to completion, so each  *)
(* callback is one action; the generator, and an async method, runs from    *)
(* one suspension point (yield / await) to the next in one action.          *)
(*                                                                         *)
(* responseText and currentStreamingMessage.content are only accumulated   *)
(* by streamResponse and never read; the model keeps the textPartId alone. *)
(* The parts' toolName, input, usage and providerMetadata do not depend on *)
(* the stream's state and are left out of Part.                            *)
(***************************************************************************)
EXTENDS Integers, Sequences, FiniteSets, TLC

VARIABLES
    textStartEmitted,        \* let textStartEmitted = false
    currentStreamingMessage, \* its textPartId, or NoId for null
    pendingTextStart,        \* the stored text-start part, or NoPart for null
    messageQueue,            \* const messageQueue: LanguageModelV2StreamPart[]
    resolveNext,             \* TRUE iff the resolveNext slot holds a callback
    finished,                \* let finished = false
    timer,                   \* the response timeout: "none", "armed", "fired", "cleared"
    ws,                      \* the socket: "none", "connecting", "open", "closing", "closed"
    pc,                      \* the generator: "none", "running", "waiting", "done"
    nextId,                  \* number of generateId() calls made so far
    nrecv,                   \* number of inbound messages handled so far
    script,                  \* the inbound messages of a scripted run
    scripted,                \* TRUE iff the run replays script
    transportFailed,         \* history: ws.onerror has fired
    enqueued,                \* history: parts in the order they were enqueued
    arrival,                 \* history: for each enqueued part, its message number
    delivered                \* history: parts in the order the generator yielded

\* the socket's callbacks and the consumer of the ReadableStream
VARIABLES
    handlers,                \* who assigned ws.on*: "none", "connect", "stream", "generate"
    cancelled                \* TRUE iff the consumer cancelled the ReadableStream

\* generateResponse
VARIABLES
    responseText,            \* let responseText = "", as a sequence of characters
    promise,                 \* the promise generateResponse returns
    genTimeout,              \* its response timeout: "none", "armed", "fired", "cleared"
    received                 \* history: the messages its ws.onmessage handled

\* the model instance and its ensureSession calls
VARIABLES
    settings,                \* this.settings: sessionId and assumeSessionValid
    sessionId,               \* this.sessionId
    sessionCreated,          \* this.sessionCreated
    calls,                   \* the ensureSession calls: position, local and result
    validated,               \* the validateGooseSession call made with the settings
    validations,             \* history: validation requests ensureSession sent
    creations,               \* history: creation requests ensureSession sent
    sentSessionIds           \* history: per call, the session_id its request sent

\* createWebSocket and the request (doGenerate / doStream) using it
VARIABLES
    connTimeout,             \* the connection timeout: "none", "armed", "fired", "cleared"
    connPromise,             \* the promise createWebSocket returns
    attempts,                \* history: number of `new WebSocket` made
    request,                 \* the request: its kind and position
    outbound                 \* history: the messages sent with ws.send

\* createStreamFromAsyncGenerator: the loop feeding the ReadableStream
VARIABLES
    responseFormat,          \* options.responseFormat?.type: "text" or "json"
    accumulatedText,         \* let accumulatedText = "", as a sequence of characters
    controller               \* history: the parts given to controller.enqueue

\* convertPromptToText, extractJson and createGooseWeb, called on their own
VARIABLES
    prompt,                  \* the argument of convertPromptToText
    inputText,               \* the argument of extractJson
    returnedText,            \* the string returned, as a sequence of characters
    providerSettings,        \* the argument of createGooseWeb
    modelSettings,           \* the second argument of provider(modelId, settings)
    mergedSettings,          \* this.settings of the model the provider made
    callOutcome              \* of the call: "none", "returned" or "threw"

streamVars == << textStartEmitted, currentStreamingMessage, pendingTextStart,
                 messageQueue, resolveNext, finished, timer, ws, pc, nextId, nrecv,
                 script, scripted, transportFailed, enqueued, arrival, delivered >>

genVars == << responseText, promise, genTimeout, received >>

sessionVars ==
    << settings, sessionId, sessionCreated, calls, validated, validations, creations,
       sentSessionIds >>

connVars == << connTimeout, connPromise, attempts >>

requestVars == << request, outbound >>

pumpVars == << responseFormat, accumulatedText, controller >>

utilVars ==
    << prompt, inputText, returnedText, providerSettings, modelSettings,
       mergedSettings, callOutcome >>

\* the instance, the request and the calls of the helpers
instanceVars ==
    << handlers, cancelled, genVars, sessionVars, connVars, requestVars, utilVars >>

\* what the callbacks and the generator of streamResponse leave alone
nonStreamVars == << pumpVars, instanceVars >>

vars == << streamVars, nonStreamVars >>

---------------------------------------------------------------------------
(* Bounds of the model *)

\* inbound messages handled per stream in an unscripted run
MaxMsgs == 3
\* response messages of a scripted text-only run
MaxChunks == 3
\* ensureSession calls made on one model instance
MaxCalls == 3
\* messages of a prompt given to convertPromptToText
MaxPrompt == 3
\* characters of a text given to extractJson
MaxText == 4

---------------------------------------------------------------------------
(* Identifiers, messages and stream parts *)

NoId == [src |-> "none", n |-> 0]
\* the k-th value returned by generateId(): distinct from every other one
GenerateId(k) == [src |-> "gen", n |-> k]
\* an identifier supplied by the server in data.id
ServerId(k) == [src |-> "srv", n |-> k]

\* data.content: the empty string is falsy and skipped by `if (data.content)`
Contents == {"", "a", "b"}
\* the characters of data.content
Text(c) == IF c = "" THEN << >> ELSE << c >>
\* data.id on tool messages: absent or supplied
ToolIds == {NoId, ServerId(1)}
\* data.result on tool_response: absent ("") or supplied
Results == {"", "r"}
\* the tool identifiers of the scripted scenarios
ScriptToolIds == {ServerId(1), ServerId(2)}

Msg(type, content, id, result) ==
    [type |-> type, content |-> content, id |-> id, result |-> result]

\* GooseWebResponse values; "malformed" stands for data JSON.parse rejects
Messages ==
    {Msg("response", c, NoId, "") : c \in Contents}
    \cup {Msg("tool_request", "", i, "") : i \in ToolIds}
    \cup {Msg("tool_response", "", i, r) : i \in ToolIds, r \in Results}
    \cup {Msg(t, "", NoId, "") : t \in {"complete", "error", "thinking", "malformed"}}

\* this.sessionId: the empty string, the identifier given in the settings, or
\* the identifier in the Location header of the k-th session the remote created
EmptySessionId == [src |-> "empty", n |-> 0]
SettingsId == [src |-> "settings", n |-> 0]
CreatedId(k) == [src |-> "remote", n |-> k]

\* this.settings.wsUrl: the default address
WsUrl == "ws://localhost:8080/ws"
\* the flattened prompt, sent as the content of the outbound message
UserMessage == "prompt"

\* the errors of errors.ts: a kind, a message and the metadata passed along
Error(kind, message, sid, last) ==
    [kind |-> kind, message |-> message, wsUrl |-> WsUrl, sessionId |-> sid,
     lastMessage |-> last]
NoError == [kind |-> "none", message |-> "", wsUrl |-> "",
            sessionId |-> EmptySessionId, lastMessage |-> ""]
CreateAPICallError(message, sid, last) == Error("APICallError", message, sid, last)
CreateTimeoutError(sid, last) == Error("TimeoutError", "Request timeout", sid, last)
CreateConnectionError(message, sid) == Error("ConnectionError", message, sid, "")

\* a promise: pending, resolved with a value or rejected with an error
Pending == [state |-> "pending", text |-> << >>, finishReason |-> "", error |-> NoError]
Resolved(text, reason) ==
    [state |-> "resolved", text |-> text, finishReason |-> reason, error |-> NoError]
Rejected(err) ==
    [state |-> "rejected", text |-> << >>, finishReason |-> "", error |-> err]

\* resolve(...) / reject(...): only the first call settles the promise
Settle(p, outcome) == IF p.state = "pending" THEN outcome ELSE p

\* the messages a handler has no case for, and those JSON.parse throws on
IgnoredTypes == {"thinking", "cancelled", "unknown", "malformed"}

\* LanguageModelV2StreamPart: data is delta / result / finishReason / error kind
Part(type, id, data) == [type |-> type, id |-> id, data |-> data]
NoPart == Part("none", NoId, "")

---------------------------------------------------------------------------
(* The ordered delivery queue: enqueueStreamPart and the generator's waiter *)

\* the callback resolving only when told the stream is done
ResolveNextCall_Inverted(p, done) ==
    IF done /\ p = "waiting" THEN "running" ELSE p

\* The callback stored in resolveNext, called with {done}: it resolves the
\* promise the generator awaits only `if (!result.done)`.
ResolveNextCall(p, done) ==
    IF ~done /\ p = "waiting" THEN "running" ELSE p

\* The queue-side state enqueueStreamPart reads and writes
QueueState ==
    [messageQueue |-> messageQueue, pendingTextStart |-> pendingTextStart,
     resolveNext |-> resolveNext, pc |-> pc, enqueued |-> enqueued]

\* the waiter slot emptied without its callback being called
WakeGenerator_NoCall(q) ==
    IF q.resolveNext THEN [q EXCEPT !.resolveNext = FALSE] ELSE q

\* `if (resolveNext) { resolve = resolveNext; resolveNext = null; resolve({done: false}) }`
WakeGenerator(q) ==
    IF q.resolveNext
    THEN [q EXCEPT !.resolveNext = FALSE, !.pc = ResolveNextCall(q.pc, FALSE)]
    ELSE q

\* enqueueStreamPart pushing the text-delta without the stored text-start
EnqueueStreamPart_DropsTextStart(q, part) ==
    LET h == [q EXCEPT !.enqueued = Append(q.enqueued, part)] IN
    IF part.type = "text-start"
    THEN [h EXCEPT !.pendingTextStart = part]
    ELSE WakeGenerator([h EXCEPT !.messageQueue = Append(q.messageQueue, part),
                                 !.pendingTextStart = NoPart])

\* const enqueueStreamPart = (part) => { ... }
EnqueueStreamPart(q, part) ==
    LET h == [q EXCEPT !.enqueued = Append(q.enqueued, part)] IN
    IF part.type = "text-start"
    THEN [h EXCEPT !.pendingTextStart = part]
    ELSE IF part.type = "text-delta" /\ q.pendingTextStart # NoPart
    THEN WakeGenerator(
             [h EXCEPT !.messageQueue = q.messageQueue \o << q.pendingTextStart, part >>,
                       !.pendingTextStart = NoPart])
    ELSE WakeGenerator([h EXCEPT !.messageQueue = Append(q.messageQueue, part)])

\* the calls of enqueueStreamPart one handler makes, in order
RECURSIVE EnqueueAll(_, _)
EnqueueAll(q, parts) ==
    IF parts = << >> THEN q
    ELSE EnqueueAll(EnqueueStreamPart(q, Head(parts)), Tail(parts))

\* write back the queue-side state; every part enqueued by the handler of
\* message number k is recorded as arriving with k
SetQueue(q, k) ==
    /\ messageQueue' = q.messageQueue
    /\ pendingTextStart' = q.pendingTextStart
    /\ resolveNext' = q.resolveNext
    /\ pc' = q.pc
    /\ enqueued' = q.enqueued
    /\ arrival' = arrival \o [i \in 1..(Len(q.enqueued) - Len(enqueued)) |-> k]

---------------------------------------------------------------------------
(* The parts each case of ws.onmessage emits *)

\* text-end for the open streaming message, if there is one
CloseParts(cur) ==
    IF cur # NoId THEN << Part("text-end", cur, "") >> ELSE << >>

\* the tool id always generated, data.id ignored
ToolCallId_AlwaysFresh(m, fresh) == fresh

\* data.id || generateId()
ToolCallId(m, fresh) == IF m.id # NoId THEN m.id ELSE fresh

\* case "response"
ResponseParts(m, started, cur, fresh) ==
    IF m.content = "" THEN << >>
    ELSE IF ~started
    THEN << Part("text-start", fresh, ""), Part("text-delta", fresh, m.content) >>
    ELSE IF cur # NoId
    THEN << Part("text-delta", cur, m.content) >>
    ELSE << >>

\* case "tool_request" without the text-end of the open streaming message
ToolRequestParts_NoClose(m, cur, fresh) ==
    << Part("tool-call", ToolCallId(m, fresh), "") >>

\* case "tool_request"
ToolRequestParts(m, cur, fresh) ==
    CloseParts(cur) \o << Part("tool-call", ToolCallId(m, fresh), "") >>

\* case "tool_response"
ToolResponseParts(m, fresh) ==
    IF m.result # ""
    THEN << Part("tool-result", ToolCallId(m, fresh), m.result) >>
    ELSE << >>

\* case "complete" emitting finish before the text-end
CompleteParts_FinishFirst(cur) ==
    << Part("finish", NoId, "stop") >> \o CloseParts(cur)

\* case "complete"
CompleteParts(cur) == CloseParts(cur) \o << Part("finish", NoId, "stop") >>

\* case "error"
ErrorParts(cur) == CloseParts(cur) \o << Part("error", NoId, "APICallError") >>

\* the tracker: textStartEmitted and currentStreamingMessage
TrackerState == [started |-> textStartEmitted, cur |-> currentStreamingMessage]

SetTracker(t) ==
    textStartEmitted' = t.started /\ currentStreamingMessage' = t.cur

\* case "response": the first chunk of content opens a streaming message
AfterResponse(t, m, fresh) ==
    IF m.content # "" /\ ~t.started THEN [started |-> TRUE, cur |-> fresh] ELSE t

\* case "tool_request" leaving the streaming message as it is
AfterToolRequest_NoReset(t) == t

\* case "tool_request": currentStreamingMessage = null; textStartEmitted = false
AfterToolRequest(t) == [started |-> FALSE, cur |-> NoId]

\* case "tool_response": currentStreamingMessage = null; textStartEmitted = false
\* case "tool_response" without `textStartEmitted = false`
AfterToolResponse_KeepsStarted(t) == [t EXCEPT !.cur = NoId]

AfterToolResponse(t) == [started |-> FALSE, cur |-> NoId]

\* cases "complete" and "error": currentStreamingMessage = null
AfterTerminal(t) == [t EXCEPT !.cur = NoId]

\* the error part ws.onerror creates
ConnectionErrorPart == Part("error", NoId, "ConnectionError")

---------------------------------------------------------------------------
(* Arguments of the helpers, and the state in which none has been called *)

\* the keys of GooseWebSettings the constructor gives a default to, and sessionId
SettingKeys == {"wsUrl", "connectionTimeout", "responseTimeout", "sessionId"}

\* a key the settings object does not have
Absent == "absent"

\* {}
NoSettings == [k \in SettingKeys |-> Absent]

\* a prompt: an array of entries, a string, null or undefined
Prompt(kind, entries, str) == [kind |-> kind, entries |-> entries, str |-> str]

UndefinedPrompt == Prompt("undefined", << >>, << >>)

HelpersNotCalled ==
    /\ prompt = UndefinedPrompt
    /\ inputText = << >>
    /\ returnedText = << >>
    /\ providerSettings = NoSettings
    /\ modelSettings = NoSettings
    /\ mergedSettings = NoSettings
    /\ callOutcome = "none"

\* createStreamFromAsyncGenerator has made the stream: nothing enqueued yet
PumpStarted(format) ==
    /\ responseFormat = format
    /\ accumulatedText = << >>
    /\ controller = << >>

---------------------------------------------------------------------------
(* Initial state: the first next() has run streamResponse, synchronously,   *)
(* through arming the timer, installing the callbacks and sending the      *)
(* request, into the generator loop and up to its first await.             *)

TextChunks == Contents \ {""}

\* [response(c1), ..., response(cn), complete], 1 <= n <= MaxChunks
TextScripts ==
    UNION {{[i \in 1..(n + 1) |->
                IF i <= n THEN Msg("response", f[i], NoId, "")
                ELSE Msg("complete", "", NoId, "")] : f \in [1..n -> TextChunks]}
           : n \in 1..MaxChunks}

\* [response(A), tool_request(t), tool_response(t, r), response(C), complete]
ToolScripts ==
    {<< Msg("response", a, NoId, ""), Msg("tool_request", "", t, ""),
        Msg("tool_response", "", t, "r"), Msg("response", c, NoId, ""),
        Msg("complete", "", NoId, "") >> :
        a \in TextChunks, c \in TextChunks, t \in ScriptToolIds}

\* an error message mid-stream, and messages the handler ignores
OtherScripts ==
    {<< Msg("response", "a", NoId, ""), Msg("error", "", NoId, "") >>,
     << Msg("thinking", "", NoId, ""), Msg("response", "a", NoId, ""),
        Msg("malformed", "", NoId, ""), Msg("complete", "", NoId, "") >>,
     << Msg("response", "a", NoId, ""), Msg("cancelled", "", NoId, ""),
        Msg("unknown", "", NoId, ""), Msg("response", "b", NoId, ""),
        Msg("complete", "", NoId, "") >>}

Scripts == TextScripts \cup ToolScripts \cup OtherScripts

InitStream ==
    /\ textStartEmitted = FALSE
    /\ currentStreamingMessage = NoId
    /\ pendingTextStart = NoPart
    /\ messageQueue = << >>
    /\ resolveNext = TRUE
    /\ finished = FALSE
    /\ timer = "armed"
    /\ ws = "open"
    /\ pc = "waiting"
    /\ nextId = 0
    /\ nrecv = 0
    /\ transportFailed = FALSE
    /\ enqueued = << >>
    /\ arrival = << >>
    /\ delivered = << >>

\* generateResponse has not been called
GenerateNotCalled ==
    /\ responseText = << >>
    /\ promise = Pending
    /\ genTimeout = "none"
    /\ received = << >>

Calls == 1..MaxCalls

\* an ensureSession call: where it is ("idle", "validating", "creating",
\* "done", "failed"), its local oldSessionInvalidated, the sessionId it
\* returned, and the branch it took ("cached", "valid", "invalid", "absent")
Call(at, old, sid, branch) ==
    [pc |-> at, oldSessionInvalidated |-> old, sessionId |-> sid, path |-> branch]
NotCalled == Call("idle", FALSE, EmptySessionId, "none")

\* a model constructed with a validated sessionId and assumeSessionValid
SessionAssumed ==
    /\ settings = [sessionId |-> SettingsId, assumeSessionValid |-> TRUE]
    /\ sessionId = SettingsId
    /\ sessionCreated = TRUE
    /\ calls = [c \in Calls |-> NotCalled]
    /\ validated = NotCalled
    /\ validations = 0
    /\ creations = 0
    /\ sentSessionIds = [c \in Calls |-> NoId]

\* the outbound message without the session identifier
GooseMessage_NoSession(sid) ==
    [type |-> "message", content |-> UserMessage, session_id |-> EmptySessionId]

\* the outbound message: type "message", the prompt and this.sessionId
GooseMessage(sid) == [type |-> "message", content |-> UserMessage, session_id |-> sid]

\* createWebSocket has resolved with the open socket
Connected ==
    /\ connTimeout = "cleared"
    /\ connPromise = Resolved(<< >>, "")
    /\ attempts = 1

\* doStream has returned the stream and its pump has run the generator up
\* to the first await
Streaming ==
    /\ SessionAssumed
    /\ Connected
    /\ GenerateNotCalled
    /\ handlers = "stream"
    /\ cancelled = FALSE
    /\ request = [kind |-> "stream", pc |-> "returned"]
    /\ outbound = << GooseMessage(SettingsId) >>
    /\ HelpersNotCalled

\* any inbound messages, in any order
Init ==
    InitStream /\ Streaming /\ PumpStarted("text") /\ scripted = FALSE /\ script = << >>

\* the chunks of a JSON-mode answer: the braces of an object and prose
JsonChunks == {"{", "}", "x"}

\* [response(c1), ..., response(cn), complete], 0 <= n <= MaxChunks, a
\* scenario with a tool call inside the text and one ending in an error
JsonScripts ==
    UNION {{[i \in 1..(n + 1) |->
                IF i <= n THEN Msg("response", f[i], NoId, "")
                ELSE Msg("complete", "", NoId, "")] : f \in [1..n -> JsonChunks]}
           : n \in 0..MaxChunks}
    \cup {<< Msg("response", "x", NoId, ""), Msg("tool_request", "", ServerId(1), ""),
             Msg("tool_response", "", ServerId(1), "r"), Msg("response", "{", NoId, ""),
             Msg("response", "}", NoId, ""), Msg("complete", "", NoId, "") >>,
           << Msg("thinking", "", NoId, ""), Msg("response", "{", NoId, ""),
              Msg("error", "", NoId, "") >>}

\* doStream was called with responseFormat { type: "json" }
InitJson ==
    InitStream /\ Streaming /\ PumpStarted("json") /\ scripted = TRUE
    /\ script \in JsonScripts

\* the inbound messages are any messages up to the first complete (tool
\* messages with the remote's identifier, one ignored type)
InitCompare ==
    /\ InitStream /\ Streaming /\ PumpStarted("text") /\ scripted = TRUE
    /\ \E n \in 0..MaxMsgs :
           \E before \in [1..n -> {m \in Messages :
                                      /\ m.type \notin {"complete", "malformed"}
                                      /\ m.id # NoId \/ m.type = "response"
                                         \/ m.type \in IgnoredTypes \cup {"error"}}] :
               script = Append(before, Msg("complete", "", NoId, ""))

\* the inbound messages are those of one scenario, in order
InitScripted ==
    InitStream /\ Streaming /\ PumpStarted("text") /\ scripted = TRUE /\ script \in Scripts

---------------------------------------------------------------------------
(* ws.onmessage *)

\* the messages the transport may deliver next
NextInbound ==
    IF handlers # "stream" \/ ws \notin {"open", "closing"} THEN {}
    ELSE IF scripted
    THEN (IF nrecv < Len(script) THEN {script[nrecv + 1]} ELSE {})
    ELSE (IF nrecv < MaxMsgs THEN Messages ELSE {})

Received ==
    /\ nrecv' = nrecv + 1
    /\ UNCHANGED << script, scripted, transportFailed, delivered, nonStreamVars >>

\* clearTimeout(timeout)
ClearTimeout(t) == IF t = "armed" THEN "cleared" ELSE t

OnResponse ==
    \E m \in NextInbound :
        LET opens == m.content # "" /\ ~textStartEmitted
            fresh == GenerateId(nextId + 1)
        IN  /\ m.type = "response"
            /\ SetTracker(AfterResponse(TrackerState, m, fresh))
            /\ nextId' = IF opens THEN nextId + 1 ELSE nextId
            /\ SetQueue(EnqueueAll(QueueState,
                   ResponseParts(m, textStartEmitted, currentStreamingMessage, fresh)),
                   nrecv + 1)
            /\ Received
            /\ UNCHANGED << finished, timer, ws >>

OnToolRequest ==
    \E m \in NextInbound :
        LET fresh == GenerateId(nextId + 1)
        IN  /\ m.type = "tool_request"
            /\ SetTracker(AfterToolRequest(TrackerState))
            /\ nextId' = IF m.id = NoId THEN nextId + 1 ELSE nextId
            /\ SetQueue(EnqueueAll(QueueState,
                   ToolRequestParts(m, currentStreamingMessage, fresh)), nrecv + 1)
            /\ Received
            /\ UNCHANGED << finished, timer, ws >>

OnToolResponse ==
    \E m \in NextInbound :
        LET fresh == GenerateId(nextId + 1)
        IN  /\ m.type = "tool_response"
            /\ SetTracker(AfterToolResponse(TrackerState))
            /\ nextId' = IF m.result # "" /\ m.id = NoId THEN nextId + 1 ELSE nextId
            /\ SetQueue(EnqueueAll(QueueState, ToolResponseParts(m, fresh)), nrecv + 1)
            /\ Received
            /\ UNCHANGED << finished, timer, ws >>

OnComplete ==
    \E m \in NextInbound :
        /\ m.type = "complete"
        /\ timer' = ClearTimeout(timer)
        /\ finished' = TRUE
        /\ SetTracker(AfterTerminal(TrackerState))
        /\ SetQueue(EnqueueAll(QueueState, CompleteParts(currentStreamingMessage)),
                    nrecv + 1)
        /\ Received
        /\ UNCHANGED << nextId, ws >>

OnErrorMessage ==
    \E m \in NextInbound :
        /\ m.type = "error"
        /\ timer' = ClearTimeout(timer)
        /\ finished' = TRUE
        /\ SetTracker(AfterTerminal(TrackerState))
        /\ SetQueue(EnqueueAll(QueueState, ErrorParts(currentStreamingMessage)),
                    nrecv + 1)
        /\ Received
        /\ UNCHANGED << nextId, ws >>

\* a message no case matches ("thinking", "cancelled", an unknown tag), or one
\* JSON.parse throws on: the catch block only logs
OnIgnored ==
    \E m \in NextInbound :
        /\ m.type \in IgnoredTypes
        /\ Received
        /\ UNCHANGED << textStartEmitted, currentStreamingMessage, pendingTextStart,
                        messageQueue, resolveNext, finished, timer, ws, pc, nextId,
                        enqueued, arrival >>

---------------------------------------------------------------------------
(* ws.onerror, the response timeout, the socket *)

\* ws.close(): an open socket starts its closing handshake, a connecting one
\* gives up its opening handshake
Close(w) == IF w \in {"connecting", "open"} THEN "closing" ELSE w

\* ws.onerror: the part is handed to a waiting generator's callback, which
\* ignores the value, and is pushed to the queue only when nothing waits.
\* The transport reports a failed connection once and delivers nothing after.
OnTransportError ==
    /\ handlers = "stream"
    /\ ws \in {"open", "closing"}
    /\ timer' = ClearTimeout(timer)
    /\ finished' = TRUE
    /\ IF resolveNext
       THEN /\ pc' = ResolveNextCall(pc, FALSE)
            /\ resolveNext' = FALSE
            /\ UNCHANGED << messageQueue, enqueued, arrival >>
       ELSE /\ messageQueue' = Append(messageQueue, ConnectionErrorPart)
            /\ enqueued' = Append(enqueued, ConnectionErrorPart)
            /\ arrival' = Append(arrival, nrecv)
            /\ UNCHANGED << pc, resolveNext >>
    /\ ws' = "closed"
    /\ transportFailed' = TRUE
    /\ UNCHANGED << textStartEmitted, currentStreamingMessage, pendingTextStart,
                    nextId, nrecv, script, scripted, delivered, nonStreamVars >>

\* setTimeout(() => { ws.close(); if (resolveNext) resolveNext({done: true}) })
Timeout ==
    /\ timer = "armed"
    /\ timer' = "fired"
    /\ ws' = Close(ws)
    /\ pc' = IF resolveNext THEN ResolveNextCall(pc, TRUE) ELSE pc
    /\ UNCHANGED << textStartEmitted, currentStreamingMessage, pendingTextStart,
                    messageQueue, resolveNext, finished, nextId, nrecv, script,
                    scripted, transportFailed, enqueued, arrival, delivered,
                    nonStreamVars >>

\* the closing handshake started by ws.close() completes; no onclose callback
\* is installed
SocketClosed ==
    /\ handlers # "generate"
    /\ ws = "closing"
    /\ ws' = "closed"
    /\ UNCHANGED << textStartEmitted, currentStreamingMessage, pendingTextStart,
                    messageQueue, resolveNext, finished, timer, pc, nextId, nrecv,
                    script, scripted, transportFailed, enqueued, arrival, delivered,
                    nonStreamVars >>

---------------------------------------------------------------------------
(* extractJson.  The characters of a text: the braces and brackets, "m"    *)
(* for a member such as "k":1 (JSON only between braces) and "x" for any    *)
(* character of prose.                                                      *)

Characters == {"{", "}", "[", "]", "m", "x"}

Texts == UNION {[1..n -> Characters] : n \in 0..MaxText}

\* JSON.parse(s) returns: s is {} or {member}, [] or [value]
RECURSIVE IsJson(_)
IsJson(s) ==
    \/ s = << "{", "}" >>
    \/ s = << "{", "m", "}" >>
    \/ s = << "[", "]" >>
    \/ /\ Len(s) >= 3
       /\ Head(s) = "["
       /\ s[Len(s)] = "]"
       /\ IsJson(SubSeq(s, 2, Len(s) - 1))

\* the character closing the one at the start of a match
Closing(c) == IF c = "{" THEN "}" ELSE "]"

\* the regular expression can match from position i: a brace with a closing
\* brace after it, or a bracket with a closing bracket after it
MatchesFrom(t, i) ==
    /\ t[i] \in {"{", "["}
    /\ \E j \in (i + 1)..Len(t) : t[j] = Closing(t[i])

NoMatch == [found |-> FALSE, from |-> 0, to |-> 0]

\* text.match(/\{[\s\S]*\}|\[[\s\S]*\]/): the leftmost position that matches,
\* and from it, [\s\S]* being greedy, up to the last closing character
Match(t) ==
    IF \A i \in DOMAIN t : ~MatchesFrom(t, i) THEN NoMatch
    ELSE LET i == CHOOSE k \in DOMAIN t :
                      MatchesFrom(t, k) /\ \A l \in 1..(k - 1) : ~MatchesFrom(t, l)
             j == CHOOSE k \in (i + 1)..Len(t) :
                      t[k] = Closing(t[i]) /\ \A l \in (k + 1)..Len(t) : t[l] # Closing(t[i])
         IN  [found |-> TRUE, from |-> i, to |-> j]

\* what a call gives: the string returned, or an exception
Returns(t) == [outcome |-> "returned", text |-> t]
Throws == [outcome |-> "threw", text |-> << >>]

\* extractJson without its try / catch
ExtractJson_NoCatch(t) ==
    LET m == Match(t)
    IN  IF ~m.found THEN Returns(t)
        ELSE IF IsJson(SubSeq(t, m.from, m.to)) THEN Returns(SubSeq(t, m.from, m.to))
        ELSE Throws

\* extractJson: the match when JSON.parse accepts it, else the text
ExtractJson(t) ==
    LET m == Match(t)
    IN  IF ~m.found THEN Returns(t)
        ELSE IF IsJson(SubSeq(t, m.from, m.to)) THEN Returns(SubSeq(t, m.from, m.to))
        ELSE Returns(t)

---------------------------------------------------------------------------
(* createStreamFromAsyncGenerator: the body of its for await loop *)

\* a part as the ReadableStream holds it, its text a sequence of characters
Chunk(type, id, delta) == [type |-> type, id |-> id, delta |-> delta]

\* `if (part.type === "text-delta") accumulatedText += part.delta`
Accumulate(acc, part) ==
    IF part.type = "text-delta" THEN acc \o Text(part.data) ELSE acc

\* on finish in JSON mode with some text: the JSON-only text sequence, when
\* extractJson returned something else than the text
JsonParts(format, acc, part, jsonId) ==
    IF /\ part.type = "finish" /\ format = "json" /\ acc # << >>
       /\ ExtractJson(acc).text # acc
    THEN << Chunk("text-start", jsonId, << >>),
            Chunk("text-delta", jsonId, ExtractJson(acc).text),
            Chunk("text-end", jsonId, << >>) >>
    ELSE << >>

\* the part handed on as it is, unless it is a text part in JSON mode
OwnParts(format, part) ==
    IF format = "json" /\ part.type \in {"text-start", "text-delta", "text-end"}
    THEN << >>
    ELSE << Chunk(part.type, part.id, Text(part.data)) >>

---------------------------------------------------------------------------
(* The generator loop: while (!finished || messageQueue.length > 0) *)

\* while (!finished): the loop leaving parts in the queue
LoopContinues_IgnoresQueue(fin, q) == ~fin

\* the loop condition `!finished || messageQueue.length > 0`
LoopContinues(fin, q) == ~fin \/ q # << >>

\* messageQueue.pop(): the newest part instead of the oldest
Shift_FromEnd(q) == [part |-> q[Len(q)], rest |-> SubSeq(q, 1, Len(q) - 1)]

\* messageQueue.shift()
Shift(q) == [part |-> Head(q), rest |-> Tail(q)]

\* yield messageQueue.shift(): the pump of createStreamFromAsyncGenerator hands
\* the part to controller.enqueue and asks for the next one.  On a stream
\* its consumer has cancelled, controller.enqueue throws, the for await loop
\* calls generator.return() and the generator ends at the yield.
GeneratorYield ==
    /\ pc = "running"
    /\ LoopContinues(finished, messageQueue)
    /\ messageQueue # << >>
    /\ LET part == Shift(messageQueue).part
           acc == Accumulate(accumulatedText, part)
           json == JsonParts(responseFormat, acc, part, GenerateId(nextId + 1))
           out == json \o OwnParts(responseFormat, part)
           \* controller.enqueue throws on a cancelled stream
           throws == cancelled /\ out # << >>
       IN  /\ accumulatedText' = acc
           /\ delivered' = IF throws THEN delivered ELSE Append(delivered, part)
           /\ controller' = IF throws THEN controller ELSE controller \o out
           /\ nextId' = IF json # << >> THEN nextId + 1 ELSE nextId
           /\ pc' = IF throws THEN "done" ELSE pc
    /\ messageQueue' = Shift(messageQueue).rest
    /\ UNCHANGED << textStartEmitted, currentStreamingMessage, pendingTextStart,
                    resolveNext, finished, timer, ws, nrecv, script, scripted,
                    transportFailed, enqueued, arrival, responseFormat, instanceVars >>

\* await new Promise((resolve) => { resolveNext = ... })
GeneratorAwait ==
    /\ pc = "running"
    /\ LoopContinues(finished, messageQueue)
    /\ messageQueue = << >>
    /\ resolveNext' = TRUE
    /\ pc' = "waiting"
    /\ UNCHANGED << textStartEmitted, currentStreamingMessage, pendingTextStart,
                    messageQueue, finished, timer, ws, nextId, nrecv, script,
                    scripted, transportFailed, enqueued, arrival, delivered,
                    nonStreamVars >>

\* the loop condition fails: ws.close() and the generator returns
GeneratorReturn ==
    /\ pc = "running"
    /\ ~LoopContinues(finished, messageQueue)
    /\ pc' = "done"
    /\ ws' = Close(ws)
    /\ UNCHANGED << textStartEmitted, currentStreamingMessage, pendingTextStart,
                    messageQueue, resolveNext, finished, timer, nextId, nrecv,
                    script, scripted, transportFailed, enqueued, arrival, delivered,
                    nonStreamVars >>

---------------------------------------------------------------------------
(* generateResponse: the aggregated path of doGenerate.  The continuation   *)
(* of doGenerate's `await this.generateResponse(...)` is a microtask: it    *)
(* runs, with its `finally { ws.close() }`, at the end of the callback      *)
(* that settles the promise.  responseFormat is "text".                     *)


UnknownError == "Unknown error from Goose server"

\* the default message whatever the remote said
ErrorMessage_Default(m) == UnknownError

\* `data.message || "Unknown error from Goose server"`; the content field of
\* an error message stands for data.message
ErrorMessage(m) == IF m.content # "" THEN m.content ELSE UnknownError

\* what ws.onmessage of generateResponse may be handed
GenMessages ==
    Messages \cup {Msg("error", "boom", NoId, ""), Msg("cancelled", "", NoId, ""),
                   Msg("unknown", "", NoId, "")}

\* event.code of a close event: 1000, or any other code
NormalClosure == 1000
AbnormalClosure == 1006
CloseCodes == {NormalClosure, AbnormalClosure}

\* the state generateResponse and the continuation of doGenerate work on
GenState ==
    [responseText |-> responseText, promise |-> promise, timeout |-> genTimeout,
     ws |-> ws, request |-> request]

SetGen(g) ==
    /\ responseText' = g.responseText
    /\ promise' = g.promise
    /\ genTimeout' = g.timeout
    /\ ws' = g.ws
    /\ request' = g.request

\* doGenerate after the await: return the result or throw, `finally { ws.close() }`
DoGenerateContinue(g) ==
    IF g.request.pc = "generateResponse" /\ g.promise.state # "pending"
    THEN [g EXCEPT !.request.pc = IF g.promise.state = "resolved"
                                  THEN "returned" ELSE "threw",
                   !.ws = Close(g.ws)]
    ELSE g

\* ws.onmessage with a case that adds the result of a tool_response to the text
GenerateOnMessage_ToolText(g, m) ==
    CASE m.type = "response" ->
            IF m.content # ""
            THEN [g EXCEPT !.responseText = @ \o Text(m.content)]
            ELSE g
      [] m.type = "tool_response" ->
            [g EXCEPT !.responseText = @ \o Text(m.result)]
      [] m.type = "complete" ->
            [g EXCEPT !.timeout = ClearTimeout(@),
                      !.promise = Settle(@, Resolved(g.responseText, "stop"))]
      [] m.type = "error" ->
            [g EXCEPT !.timeout = ClearTimeout(@),
                      !.promise = Settle(@, Rejected(CreateAPICallError(
                                      ErrorMessage(m), sessionId, UserMessage)))]
      [] OTHER -> g

\* ws.onmessage whose catch block rejects the call
GenerateOnMessage_ThrowOnMalformed(g, m) ==
    CASE m.type = "response" ->
            IF m.content # ""
            THEN [g EXCEPT !.responseText = @ \o Text(m.content)]
            ELSE g
      [] m.type = "complete" ->
            [g EXCEPT !.timeout = ClearTimeout(@),
                      !.promise = Settle(@, Resolved(g.responseText, "stop"))]
      [] m.type \in {"error", "malformed"} ->
            [g EXCEPT !.timeout = ClearTimeout(@),
                      !.promise = Settle(@, Rejected(CreateAPICallError(
                                      ErrorMessage(m), sessionId, UserMessage)))]
      [] OTHER -> g

\* ws.onmessage: the switch on data.type inside try / catch
GenerateOnMessage(g, m) ==
    CASE m.type = "response" ->
            IF m.content # ""
            THEN [g EXCEPT !.responseText = @ \o Text(m.content)]
            ELSE g
      [] m.type = "complete" ->
            [g EXCEPT !.timeout = ClearTimeout(@),
                      !.promise = Settle(@, Resolved(g.responseText, "stop"))]
      [] m.type = "error" ->
            [g EXCEPT !.timeout = ClearTimeout(@),
                      !.promise = Settle(@, Rejected(CreateAPICallError(
                                      ErrorMessage(m), sessionId, UserMessage)))]
      [] OTHER -> g

\* ws.onmessage called with each message of h in turn
RECURSIVE GenerateOnMessages(_, _)
GenerateOnMessages(g, h) ==
    IF h = << >> THEN g
    ELSE GenerateOnMessages(GenerateOnMessage(g, Head(h)), Tail(h))

\* ws.onerror: clearTimeout, reject; the failed transport closes the socket
GenerateOnError(g) ==
    [g EXCEPT !.timeout = ClearTimeout(@),
              !.promise = Settle(@, Rejected(CreateConnectionError(
                              "WebSocket error during generation", sessionId))),
              !.ws = "closed"]

\* ws.onclose clearing the timer on a normal closure too
GenerateOnClose_ClearsTimer(g, code) ==
    IF code # NormalClosure
    THEN [g EXCEPT !.timeout = ClearTimeout(@),
                   !.promise = Settle(@, Rejected(CreateConnectionError(
                                   "WebSocket closed unexpectedly", sessionId))),
                   !.ws = "closed"]
    ELSE [g EXCEPT !.timeout = ClearTimeout(@), !.ws = "closed"]

\* ws.onclose: `if (event.code !== 1000) { clearTimeout; reject }`
GenerateOnClose(g, code) ==
    IF code # NormalClosure
    THEN [g EXCEPT !.timeout = ClearTimeout(@),
                   !.promise = Settle(@, Rejected(CreateConnectionError(
                                   "WebSocket closed unexpectedly", sessionId))),
                   !.ws = "closed"]
    ELSE [g EXCEPT !.ws = "closed"]

\* the timer callback rejecting with the error of a failed connection
GenerateOnTimeout_ConnectionError(g) ==
    [g EXCEPT !.timeout = "fired",
              !.ws = Close(@),
              !.promise = Settle(@, Rejected(CreateConnectionError(
                              "WebSocket error during generation", sessionId)))]

\* the timer callback: ws.close(); reject(createTimeoutError(...))
GenerateOnTimeout(g) ==
    [g EXCEPT !.timeout = "fired",
              !.ws = Close(@),
              !.promise = Settle(@, Rejected(CreateTimeoutError(sessionId, UserMessage)))]

\* what the callbacks of generateResponse leave alone
nonGenVars ==
    << textStartEmitted, currentStreamingMessage, pendingTextStart, messageQueue,
       resolveNext, finished, timer, pc, nextId, nrecv, script, scripted,
       transportFailed, enqueued, arrival, delivered, handlers, cancelled,
       sessionVars, connVars, outbound, pumpVars, utilVars >>

GenInstalled == handlers = "generate" /\ ws \in {"open", "closing"}

\* the messages the transport may deliver next
GenInbound ==
    IF ~GenInstalled THEN {}
    ELSE IF scripted
    THEN (IF Len(received) < Len(script) THEN {script[Len(received) + 1]} ELSE {})
    ELSE (IF Len(received) < MaxMsgs THEN GenMessages ELSE {})

GenOnMessage ==
    \E m \in GenInbound :
        /\ SetGen(DoGenerateContinue(GenerateOnMessage(GenState, m)))
        /\ received' = Append(received, m)
        /\ UNCHANGED nonGenVars

GenOnError ==
    /\ GenInstalled
    /\ SetGen(DoGenerateContinue(GenerateOnError(GenState)))
    /\ UNCHANGED << received, nonGenVars >>

GenOnClose ==
    \E code \in CloseCodes :
        /\ GenInstalled
        /\ SetGen(DoGenerateContinue(GenerateOnClose(GenState, code)))
        /\ UNCHANGED << received, nonGenVars >>

GenTimeout ==
    /\ genTimeout = "armed"
    /\ SetGen(DoGenerateContinue(GenerateOnTimeout(GenState)))
    /\ UNCHANGED << received, nonGenVars >>

\* streamResponse has not been called: no timer, no generator
StreamNotCalled ==
    /\ textStartEmitted = FALSE
    /\ currentStreamingMessage = NoId
    /\ pendingTextStart = NoPart
    /\ messageQueue = << >>
    /\ resolveNext = FALSE
    /\ finished = FALSE
    /\ timer = "none"
    /\ pc = "none"
    /\ nextId = 0
    /\ nrecv = 0
    /\ transportFailed = FALSE
    /\ enqueued = << >>
    /\ arrival = << >>
    /\ delivered = << >>
    /\ cancelled = FALSE

\* doGenerate has called generateResponse, which has armed its timer,
\* installed its callbacks and sent the request
InitGenerate ==
    /\ StreamNotCalled
    /\ PumpStarted("text")
    /\ HelpersNotCalled
    /\ scripted = FALSE
    /\ script = << >>
    /\ SessionAssumed
    /\ Connected
    /\ ws = "open"
    /\ handlers = "generate"
    /\ responseText = << >>
    /\ promise = Pending
    /\ genTimeout = "armed"
    /\ received = << >>
    /\ request = [kind |-> "generate", pc |-> "generateResponse"]
    /\ outbound = << GooseMessage(SettingsId) >>

---------------------------------------------------------------------------
(* The model instance: constructor, ensureSession, validateGooseSession.    *)
(* A call runs from one await to the next in one action; calls made on one  *)
(* instance may overlap.                                                    *)

\* the settings a model is constructed with
SettingsChoices == [sessionId : {EmptySessionId, SettingsId}, assumeSessionValid : BOOLEAN]

\* the constructor: `this.sessionId = this.settings.sessionId || ""` and
\* `this.sessionCreated = !!(assumeSessionValid && sessionId)`
Construct(st) ==
    [sessionId |-> st.sessionId,
     sessionCreated |-> st.assumeSessionValid /\ st.sessionId # EmptySessionId]

InitSession ==
    /\ settings \in SettingsChoices
    /\ sessionId = Construct(settings).sessionId
    /\ sessionCreated = Construct(settings).sessionCreated
    /\ calls = [c \in Calls |-> NotCalled]
    /\ validated = NotCalled
    /\ validations = 0
    /\ creations = 0
    /\ sentSessionIds = [c \in Calls |-> NoId]

\* what ensureSession and validateGooseSession leave alone
nonSessionVars ==
    << streamVars, handlers, cancelled, genVars, connVars, requestVars, pumpVars,
       utilVars >>

\* `if (this.sessionCreated && this.sessionId)`
HasSession(created, sid) == created /\ sid # EmptySessionId

\* ensureSession up to its first await, or to its return when a session is held
EnsureSessionCall(c) ==
    /\ calls[c].pc = "idle"
    /\ \A d \in 1..(c - 1) : calls[d].pc # "idle"
    /\ IF HasSession(sessionCreated, sessionId)
       THEN /\ calls' = [calls EXCEPT ![c] = Call("done", FALSE, sessionId, "cached")]
            /\ UNCHANGED << validations, creations >>
       ELSE IF settings.sessionId # EmptySessionId
       THEN /\ calls' = [calls EXCEPT ![c] = Call("validating", FALSE, EmptySessionId, "none")]
            /\ validations' = validations + 1
            /\ UNCHANGED creations
       ELSE /\ calls' = [calls EXCEPT ![c] = Call("creating", FALSE, EmptySessionId, "absent")]
            /\ creations' = creations + 1
            /\ UNCHANGED validations
    /\ UNCHANGED << settings, sessionId, sessionCreated, validated, sentSessionIds,
                    nonSessionVars >>

\* the branch on isValid that leaves oldSessionInvalidated false
AfterValidation_FlagLost(sid, isValid) ==
    IF isValid
    THEN Call("done", FALSE, sid, "valid")
    ELSE Call("creating", FALSE, EmptySessionId, "invalid")

\* the branch on isValid: return the supplied identifier, or remember that it
\* was invalid and go on to create a session
AfterValidation(sid, isValid) ==
    IF isValid
    THEN Call("done", FALSE, sid, "valid")
    ELSE Call("creating", TRUE, EmptySessionId, "invalid")

\* validateSessionExists returns: true, or false (HTTP error, error in the
\* body, failed request)
ValidationReturns(c) ==
    \E isValid \in BOOLEAN :
        /\ calls[c].pc = "validating"
        /\ calls' = [calls EXCEPT ![c] = AfterValidation(settings.sessionId, isValid)]
        /\ IF isValid
           THEN /\ sessionId' = settings.sessionId
                /\ sessionCreated' = TRUE
                /\ UNCHANGED creations
           ELSE /\ creations' = creations + 1
                /\ UNCHANGED << sessionId, sessionCreated >>
        /\ UNCHANGED << settings, validated, validations, sentSessionIds,
                        nonSessionVars >>

\* createNewSessionHelper returns the identifier of a session the remote
\* created for this request, or throws
CreationReturns(c) ==
    \E created \in BOOLEAN :
        /\ calls[c].pc = "creating"
        /\ IF created
           THEN /\ sessionId' = CreatedId(c)
                /\ sessionCreated' = TRUE
                /\ calls' = [calls EXCEPT ![c] = Call("done", @.oldSessionInvalidated,
                                                      CreatedId(c), @.path)]
           ELSE /\ calls' = [calls EXCEPT ![c] = Call("failed", @.oldSessionInvalidated,
                                                      EmptySessionId, @.path)]
                /\ UNCHANGED << sessionId, sessionCreated >>
        /\ UNCHANGED << settings, validated, validations, creations, sentSessionIds,
                        nonSessionVars >>

\* validateGooseSession: the same branches, on no instance
ValidateGooseSession(sid, isValid, created) ==
    IF sid # EmptySessionId /\ isValid
    THEN Call("done", FALSE, sid, "valid")
    ELSE IF created
    THEN Call("done", sid # EmptySessionId, CreatedId(0),
              IF sid # EmptySessionId THEN "invalid" ELSE "absent")
    ELSE Call("failed", sid # EmptySessionId, EmptySessionId,
              IF sid # EmptySessionId THEN "invalid" ELSE "absent")

ValidateGooseSessionCall ==
    \E isValid \in BOOLEAN, created \in BOOLEAN :
        /\ validated.pc = "idle"
        /\ validated' = ValidateGooseSession(settings.sessionId, isValid, created)
        /\ UNCHANGED << settings, sessionId, sessionCreated, calls, validations,
                        creations, sentSessionIds, nonSessionVars >>

\* the request that made call c goes on after ensureSession has returned:
\* its socket opens and its response function sends the message, with
\* `session_id: this.sessionId` read at that moment
RequestSends(c) ==
    /\ calls[c].pc = "done"
    /\ sentSessionIds[c] = NoId
    /\ sentSessionIds' = [sentSessionIds EXCEPT ![c] = GooseMessage(sessionId).session_id]
    /\ UNCHANGED << settings, sessionId, sessionCreated, calls, validated,
                    validations, creations, nonSessionVars >>

\* no socket yet: createWebSocket has not been called
NotConnected ==
    /\ ws = "none"
    /\ handlers = "none"
    /\ connTimeout = "none"
    /\ connPromise = Pending
    /\ attempts = 0

\* a model instance on which no request is made
InitSessionOnly ==
    /\ InitSession
    /\ StreamNotCalled
    /\ PumpStarted("text")
    /\ HelpersNotCalled
    /\ scripted = FALSE
    /\ script = << >>
    /\ GenerateNotCalled
    /\ NotConnected
    /\ request = [kind |-> "none", pc |-> "idle"]
    /\ outbound = << >>

---------------------------------------------------------------------------
(* doGenerate / doStream: ensureSession, createWebSocket, then the response. *)
(* The code after an await runs as a microtask at the end of the callback    *)
(* that settles the awaited promise.                                         *)

\* the ensureSession call the request makes
RequestCall == 1

\* the request going on to connect although ensureSession threw
AfterEnsureSession_Regardless(call) == "createWebSocket"

\* after `await this.ensureSession()`: go on, or throw what it threw
AfterEnsureSession(call) == IF call.pc = "done" THEN "createWebSocket" ELSE "threw"

\* the request going on to send although createWebSocket rejected
AfterCreateWebSocket_Regardless(p) == "respond"

\* after `const ws = await this.createWebSocket()`: go on, or throw
AfterCreateWebSocket(p) == IF p.state = "resolved" THEN "respond" ELSE "threw"

\* the state createWebSocket works on
ConnState == [ws |-> ws, timeout |-> connTimeout, promise |-> connPromise]

SetConn(c) ==
    /\ ws' = c.ws
    /\ connTimeout' = c.timeout
    /\ connPromise' = c.promise

\* ws.onopen leaving the connection timeout armed
ConnectOnOpen_TimerKept(c) ==
    [ws |-> "open", timeout |-> c.timeout,
     promise |-> Settle(c.promise, Resolved(<< >>, ""))]

\* ws.onopen: clearTimeout(timeout); resolve(ws)
ConnectOnOpen(c) ==
    [ws |-> "open", timeout |-> ClearTimeout(c.timeout),
     promise |-> Settle(c.promise, Resolved(<< >>, ""))]

\* ws.onerror: clearTimeout(timeout); reject(...); the socket is lost
ConnectOnError(c) ==
    [ws |-> "closed", timeout |-> ClearTimeout(c.timeout),
     promise |-> Settle(c.promise, Rejected(CreateConnectionError(
                     "Failed to connect to Goose server", sessionId)))]

\* the timer callback: ws.close(); reject(...)
ConnectOnTimeout(c) ==
    [ws |-> Close(c.ws), timeout |-> "fired",
     promise |-> Settle(c.promise, Rejected(CreateConnectionError(
                     "Connection timeout", sessionId)))]

\* generateResponse up to the end of its executor, or the first next() of
\* streamResponse up to its first await: timer armed, callbacks installed,
\* the message sent
StartResponse ==
    /\ outbound' = Append(outbound, GooseMessage(sessionId))
    /\ IF request.kind = "generate"
       THEN /\ request' = [request EXCEPT !.pc = "generateResponse"]
            /\ handlers' = "generate"
            /\ genTimeout' = "armed"
            /\ UNCHANGED << timer, pc, resolveNext >>
       ELSE /\ request' = [request EXCEPT !.pc = "returned"]
            /\ handlers' = "stream"
            /\ timer' = "armed"
            /\ pc' = "waiting"
            /\ resolveNext' = TRUE
            /\ UNCHANGED genTimeout

\* the request resumes once the promise of createWebSocket is settled
ContinueAfterConnect(p) ==
    IF request.pc = "createWebSocket" /\ p.state # "pending"
    THEN IF AfterCreateWebSocket(p) = "respond"
         THEN StartResponse
         ELSE /\ request' = [request EXCEPT !.pc = "threw"]
              /\ UNCHANGED << outbound, handlers, genTimeout, timer, pc, resolveNext >>
    ELSE UNCHANGED << request, outbound, handlers, genTimeout, timer, pc, resolveNext >>

\* what createWebSocket and the resuming request leave alone
nonConnVars ==
    << textStartEmitted, currentStreamingMessage, pendingTextStart, messageQueue,
       finished, nextId, nrecv, script, scripted, transportFailed, enqueued,
       arrival, delivered, cancelled, responseText, promise, received,
       sessionVars, attempts, pumpVars, utilVars >>

\* ensureSession has returned or thrown: createWebSocket makes the socket,
\* arms the timer and installs onopen and onerror
RequestConnect ==
    /\ request.pc = "ensureSession"
    /\ calls[RequestCall].pc \in {"done", "failed"}
    /\ IF AfterEnsureSession(calls[RequestCall]) = "createWebSocket"
       THEN /\ request' = [request EXCEPT !.pc = "createWebSocket"]
            /\ ws' = "connecting"
            /\ handlers' = "connect"
            /\ connTimeout' = "armed"
            /\ connPromise' = Pending
            /\ attempts' = attempts + 1
       ELSE /\ request' = [request EXCEPT !.pc = "threw"]
            /\ UNCHANGED << ws, handlers, connTimeout, connPromise, attempts >>
    /\ UNCHANGED << textStartEmitted, currentStreamingMessage, pendingTextStart,
                    messageQueue, resolveNext, finished, timer, pc, nextId, nrecv,
                    script, scripted, transportFailed, enqueued, arrival, delivered,
                    cancelled, genVars, sessionVars, outbound, pumpVars, utilVars >>

ConnOnOpen ==
    /\ handlers = "connect"
    /\ ws = "connecting"
    /\ SetConn(ConnectOnOpen(ConnState))
    /\ ContinueAfterConnect(ConnectOnOpen(ConnState).promise)
    /\ UNCHANGED nonConnVars

\* the handshake fails, also after ws.close() gave it up
ConnOnError ==
    /\ handlers = "connect"
    /\ ws \in {"connecting", "closing"}
    /\ SetConn(ConnectOnError(ConnState))
    /\ ContinueAfterConnect(ConnectOnError(ConnState).promise)
    /\ UNCHANGED nonConnVars

ConnTimeout ==
    /\ connTimeout = "armed"
    /\ SetConn(ConnectOnTimeout(ConnState))
    /\ ContinueAfterConnect(ConnectOnTimeout(ConnState).promise)
    /\ UNCHANGED nonConnVars

\* the consumer cancels the ReadableStream doStream returned; the stream has
\* no cancel callback
ConsumerCancel ==
    /\ request.kind = "stream"
    /\ request.pc = "returned"
    /\ pc # "done"
    /\ ~cancelled
    /\ cancelled' = TRUE
    /\ UNCHANGED << streamVars, handlers, genVars, sessionVars, connVars, requestVars,
                    pumpVars, utilVars >>

\* doGenerate or doStream is called on a model just constructed
InitRequest ==
    /\ InitSession
    /\ StreamNotCalled
    /\ PumpStarted("text")
    /\ HelpersNotCalled
    /\ GenerateNotCalled
    /\ NotConnected
    /\ scripted = TRUE
    /\ script \in Scripts
    /\ request \in [kind : {"generate", "stream"}, pc : {"ensureSession"}]
    /\ outbound = << >>

---------------------------------------------------------------------------
(* convertPromptToText.  A string is a sequence of characters; the text of  *)
(* a message stands for one character, and so do the prefix and the         *)
(* separators the function writes.                                          *)

SystemPrefix == "System: "
BlankLine == "\n\n"
Space == " "

\* a part of a multi-part content: { type, text }; type "null" is a null
\* entry of the array, the text "" a part without text
ContentPart(type, t) == [type |-> type, text |-> t]

\* an entry of the prompt array: kind says what message.content is ("string",
\* "array", or "other"), and kind "null" that the entry is no object at all
PromptMessage(role, kind, str, parts) ==
    [role |-> role, kind |-> kind, str |-> str, parts |-> parts]

\* the multi-part contents tried: no part, text parts alone, text parts
\* around an image, an image alone, parts with no text and a null entry
PartLists ==
    {<< >>,
     << ContentPart("text", "c") >>,
     << ContentPart("text", "c"), ContentPart("text", "d") >>,
     << ContentPart("text", "c"), ContentPart("image", ""), ContentPart("text", "d") >>,
     << ContentPart("image", "") >>,
     << ContentPart("null", ""), ContentPart("text", ""), ContentPart("text", "d") >>}

PromptMessages ==
    {PromptMessage("none", "null", "", << >>)}
    \cup {PromptMessage("system", "string", s, << >>) : s \in {"s1", "s2"}}
    \cup {PromptMessage("system", "array", "", << ContentPart("text", "c") >>)}
    \cup {PromptMessage("user", "string", s, << >>) : s \in {"a", ""}}
    \cup {PromptMessage("assistant", "string", "b", << >>)}
    \cup {PromptMessage("tool", "array", "", << ContentPart("tool-result", "") >>)}
    \cup {PromptMessage("user", "other", "", << >>)}
    \cup {PromptMessage("user", "array", "", ps) : ps \in PartLists}

\* the prompts that are no array: a string, the empty string, null, undefined
OtherPrompts ==
    {Prompt("string", << >>, << "p" >>), Prompt("string", << >>, << >>),
     Prompt("null", << >>, << >>), UndefinedPrompt}

\* p is an array of at most MaxPrompt messages, a string, null or undefined
IsPrompt(p) ==
    \/ \E n \in 0..MaxPrompt :
           \E es \in [1..n -> PromptMessages] : p = Prompt("array", es, << >>)
    \/ p \in OtherPrompts

\* Array.prototype.join without its separator
RECURSIVE Join_NoSeparator(_, _)
Join_NoSeparator(strs, sep) ==
    IF strs = << >> THEN << >>
    ELSE Head(strs) \o Join_NoSeparator(Tail(strs), sep)

\* Array.prototype.join
RECURSIVE Join(_, _)
Join(strs, sep) ==
    IF strs = << >> THEN << >>
    ELSE IF Len(strs) = 1 THEN Head(strs)
    ELSE Head(strs) \o << sep >> \o Join(Tail(strs), sep)

\* part && part.type === "text", and a text filter(Boolean) keeps
IsTextPart(part) == part.type = "text" /\ part.text # ""

\* the content mapped to the text of every part, whatever its type
TextParts_AllParts(parts) ==
    [i \in 1..Len(parts) |-> Text(parts[i].text)]

\* message.content.filter(...).map(...).filter(Boolean)
TextParts(parts) ==
    LET kept == SelectSeq(parts, IsTextPart)
    IN  [i \in 1..Len(kept) |-> Text(kept[i].text)]

\* one iteration of `for (const message of prompt)` on the array `messages`
AddMessage(messages, message) ==
    IF message.kind = "null" THEN messages
    ELSE IF message.role = "system"
    THEN IF message.kind = "string"
         THEN << << SystemPrefix >> \o Text(message.str) >> \o messages
         ELSE messages
    ELSE IF message.role \in {"user", "assistant"}
    THEN IF message.kind = "string"
         THEN Append(messages, Text(message.str))
         ELSE IF message.kind = "array" /\ Len(TextParts(message.parts)) > 0
         THEN Append(messages, Join(TextParts(message.parts), Space))
         ELSE messages
    ELSE messages

\* the array `messages` after the first n entries of the prompt
RECURSIVE MessagesAfter(_, _)
MessagesAfter(entries, n) ==
    IF n = 0 THEN << >>
    ELSE AddMessage(MessagesAfter(entries, n - 1), entries[n])

ConvertPromptToText(p) ==
    IF p.kind = "array" THEN Join(MessagesAfter(p.entries, Len(p.entries)), BlankLine)
    ELSE IF p.kind = "string" THEN p.str
    ELSE << >>

\* what a call of a helper leaves alone
nonUtilVars ==
    << streamVars, handlers, cancelled, genVars, sessionVars, connVars, requestVars,
       pumpVars >>

\* convertPromptToText(prompt) is called and returns
ConvertCall ==
    /\ callOutcome = "none"
    /\ returnedText' = ConvertPromptToText(prompt)
    /\ callOutcome' = "returned"
    /\ UNCHANGED << prompt, inputText, providerSettings, modelSettings,
                    mergedSettings, nonUtilVars >>

\* a model on which no request is made
NoRequest ==
    /\ SessionAssumed
    /\ StreamNotCalled
    /\ scripted = FALSE
    /\ script = << >>
    /\ GenerateNotCalled
    /\ NotConnected
    /\ request = [kind |-> "none", pc |-> "idle"]
    /\ outbound = << >>
    /\ PumpStarted("text")

\* convertPromptToText is about to be called on some prompt
InitPrompt ==
    /\ NoRequest
    /\ IsPrompt(prompt)
    /\ inputText = << >>
    /\ returnedText = << >>
    /\ providerSettings = NoSettings
    /\ modelSettings = NoSettings
    /\ mergedSettings = NoSettings
    /\ callOutcome = "none"

---------------------------------------------------------------------------
(* Calls of extractJson on its own *)

\* extractJson(text) is called and returns
ExtractCall ==
    /\ callOutcome = "none"
    /\ returnedText' = ExtractJson(inputText).text
    /\ callOutcome' = ExtractJson(inputText).outcome
    /\ UNCHANGED << prompt, inputText, providerSettings, modelSettings,
                    mergedSettings, nonUtilVars >>

\* extractJson is about to be called on some text
InitExtract ==
    /\ NoRequest
    /\ prompt = UndefinedPrompt
    /\ inputText \in Texts
    /\ returnedText = << >>
    /\ providerSettings = NoSettings
    /\ modelSettings = NoSettings
    /\ mergedSettings = NoSettings
    /\ callOutcome = "none"

---------------------------------------------------------------------------
(* createGooseWeb: the settings of a model made through a provider.  A      *)
(* settings object gives every key a value or does not have it (Absent);    *)
(* numbers are written as strings, and "undefined" is a key that is         *)
(* present with the value undefined.                                        *)

\* the values tried for each key
SettingValues ==
    [wsUrl |-> {Absent, "ws://provider:8000/ws", "ws://model:9000/ws"},
     connectionTimeout |-> {Absent, "1000", "undefined"},
     responseTimeout |-> {Absent, "60000"},
     sessionId |-> {Absent, "provider-session", "model-session"}]

\* the settings objects given to createGooseWeb and to the provider
SettingsObjects ==
    {st \in [SettingKeys -> UNION {SettingValues[k] : k \in SettingKeys}] :
        \A k \in SettingKeys : st[k] \in SettingValues[k]}

\* the defaults the constructor writes ahead of options.settings
DefaultSettings ==
    [wsUrl |-> WsUrl,
     connectionTimeout |-> "30000",
     responseTimeout |-> "120000",
     sessionId |-> Absent]

\* { ...a, ...b } keeping a's value for the keys both have
Spread_FirstWins(a, b) ==
    [k \in SettingKeys |-> IF a[k] # Absent THEN a[k] ELSE b[k]]

\* { ...a, ...b }
Spread(a, b) ==
    [k \in SettingKeys |-> IF b[k] # Absent THEN b[k] ELSE a[k]]

\* createModel: mergedSettings, then this.settings of the new model
CreateModel(provider, model) == Spread(DefaultSettings, Spread(provider, model))

\* createGooseWeb(providerSettings)(modelId, modelSettings)
ProviderCall ==
    /\ callOutcome = "none"
    /\ mergedSettings' = CreateModel(providerSettings, modelSettings)
    /\ callOutcome' = "returned"
    /\ UNCHANGED << prompt, inputText, returnedText, providerSettings, modelSettings,
                    nonUtilVars >>

\* a provider is about to be made and asked for a model
InitProvider ==
    /\ NoRequest
    /\ prompt = UndefinedPrompt
    /\ inputText = << >>
    /\ returnedText = << >>
    /\ providerSettings \in SettingsObjects
    /\ modelSettings \in SettingsObjects
    /\ mergedSettings = NoSettings
    /\ callOutcome = "none"

---------------------------------------------------------------------------
(* Properties of the emitted stream *)

\* every part emitted so far, in emission order: yielded or still queued
Output == delivered \o messageQueue

TextTypes == {"text-start", "text-delta", "text-end"}

Last(seq) == seq[Len(seq)]

IsPrefix(a, b) == Len(a) <= Len(b) /\ SubSeq(b, 1, Len(a)) = a

\* C1: every text-delta and every text-end is preceded by a text-start with
\* the same id, and an id never appears in a text part after its text-end.
C1_TextLifecycle ==
    \A i \in 1..Len(Output) :
        /\ Output[i].type \in {"text-delta", "text-end"} =>
               \E j \in 1..(i - 1) :
                   Output[j].type = "text-start" /\ Output[j].id = Output[i].id
        /\ Output[i].type = "text-end" =>
               \A j \in (i + 1)..Len(Output) :
                   ~(Output[j].type \in TextTypes /\ Output[j].id = Output[i].id)

\* two segments have been yielded, the first closed before the second opened
C1_Witness ==
    \E i, j \in 1..Len(delivered) :
        /\ i < j
        /\ delivered[i].type = "text-end"
        /\ delivered[j].type = "text-delta"

\* C2: no segment id appears in a text-delta both before and after a
\* tool-call part; and a tool_request handled while a streaming message is
\* open emits that message's text-end right before the tool-call.
C2_NoSegmentAcrossToolCall ==
    /\ [](\A i, k, j \in 1..Len(Output) :
             (/\ i < k /\ k < j
              /\ Output[i].type = "text-delta"
              /\ Output[k].type = "tool-call"
              /\ Output[j].type = "text-delta") => Output[i].id # Output[j].id)
    /\ [][(/\ Len(enqueued') > Len(enqueued)
            /\ Last(enqueued').type = "tool-call"
            /\ currentStreamingMessage # NoId)
           => (/\ Len(enqueued') = Len(enqueued) + 2
               /\ enqueued'[Len(enqueued) + 1] =
                      Part("text-end", currentStreamingMessage, ""))]_vars

\* text was yielded on both sides of a tool call
C2_Witness ==
    \E i, k, j \in 1..Len(delivered) :
        /\ i < k /\ k < j
        /\ delivered[i].type = "text-delta"
        /\ delivered[k].type = "tool-call"
        /\ delivered[j].type = "text-delta"

\* C3: one text-start precedes the first text-delta of a segment, and every
\* text-delta emitted until the next text-end carries the same id, whatever
\* messages arrive in between.
C3_SameIdUntilClose ==
    \A i \in 1..Len(Output) :
        Output[i].type = "text-delta" =>
            /\ Cardinality({j \in 1..(i - 1) :
                   Output[j].type = "text-start" /\ Output[j].id = Output[i].id}) = 1
            /\ \A j \in (i + 1)..Len(Output) :
                   (/\ Output[j].type = "text-delta"
                    /\ \A k \in (i + 1)..(j - 1) : Output[k].type # "text-end")
                   => Output[j].id = Output[i].id

\* the stream a text-only scenario must produce
ExpectedText(sc) ==
    LET id == GenerateId(1) IN
    << Part("text-start", id, "") >>
    \o [i \in 1..(Len(sc) - 1) |-> Part("text-delta", id, sc[i].content)]
    \o << Part("text-end", id, ""), Part("finish", NoId, "stop") >>

\* C4: n >= 1 response messages with content, then complete, and no transport
\* failure: the stream is text-start, the n text-deltas in arrival order,
\* text-end, finish(stop), and then the generator returns.
C4_TextOnlyStream ==
    (script \in TextScripts /\ ~transportFailed) =>
        /\ IsPrefix(delivered, ExpectedText(script))
        /\ nrecv = Len(script) => (Output = ExpectedText(script) /\ finished)
        /\ pc = "done" => delivered = ExpectedText(script)

\* a scenario of two different chunks has been streamed to its end
C4_Witness ==
    /\ script \in TextScripts
    /\ Len(script) = 3
    /\ script[1].content # script[2].content
    /\ ~transportFailed
    /\ pc = "done"
    /\ Len(delivered) = 5

\* C5: response(A), tool_request(t), tool_response(t, r), response(C),
\* complete: A and C are streamed under two different segment ids, and the
\* tool-call and the tool-result both carry the server's identifier t.
C5_ToolScenario ==
    script \in ToolScripts =>
        /\ \A k \in 1..Len(Output) :
               Output[k].type \in {"tool-call", "tool-result"} =>
                   Output[k].id = script[2].id
        /\ (nrecv = Len(script) /\ ~transportFailed) =>
               /\ Cardinality({k \in 1..Len(Output) : Output[k].type = "text-delta"}) = 2
               /\ \E i, c, r, j \in 1..Len(Output) :
                      /\ i < c /\ c < r /\ r < j
                      /\ Output[i] = Part("text-delta", Output[i].id, script[1].content)
                      /\ Output[c].type = "tool-call"
                      /\ Output[r].type = "tool-result"
                      /\ Output[j] = Part("text-delta", Output[j].id, script[4].content)
                      /\ Output[i].id # Output[j].id

\* the tool scenario has been streamed to its end
C5_Witness ==
    /\ script \in ToolScripts
    /\ ~transportFailed
    /\ pc = "done"
    /\ Len(delivered) = 9

APIErrorPart == Part("error", NoId, "APICallError")

\* no text-end is emitted after the error part for a segment opened before it
C6_CloseBeforeError ==
    \A i \in 1..Len(Output) :
        Output[i] = APIErrorPart =>
            \A j \in (i + 1)..Len(Output) :
                Output[j].type = "text-end" =>
                    \E k \in (i + 1)..(j - 1) :
                        Output[k].type = "text-start" /\ Output[k].id = Output[j].id

\* C6: an error message arriving with a segment open emits text-end and then
\* the error part, never the error part first, and the error part is the last
\* part the consumer receives before the end of the stream.
C6_CloseThenErrorLast ==
    /\ C6_CloseBeforeError
    /\ pc = "done" =>
           \A i \in 2..Len(delivered) :
               (delivered[i] = APIErrorPart /\ delivered[i - 1].type = "text-end")
               => i = Len(delivered)

\* nothing can happen any more: the socket is closed, the timer is not armed
\* and the generator is not runnable
Quiescent == ws = "closed" /\ timer # "armed" /\ pc # "running"

TimeoutErrorPart == Part("error", NoId, "TimeoutError")

\* C7: when the response deadline expires without a terminal message, the
\* stream ends with a timeout error part delivered to the consumer.
C7_TimeoutYieldsError ==
    (timer = "fired" /\ ~finished /\ Quiescent) =>
        (delivered # << >> /\ Last(delivered) = TimeoutErrorPart)

\* C8: when the response deadline expires, the consumer reaches the end of
\* the stream, after every part queued before.
C8_TimeoutEndsStream ==
    (timer = "fired" /\ Quiescent) => (pc = "done" /\ delivered = enqueued)

\* C9: the parts are yielded in the order they were enqueued, which is the
\* order their messages arrived in; none is reordered, duplicated or skipped.
C9_FifoDelivery ==
    /\ delivered \o messageQueue = enqueued
    /\ Len(arrival) = Len(enqueued)
    /\ \A i, j \in 1..Len(arrival) : i < j => arrival[i] <= arrival[j]

\* parts of an earlier message were yielded while a later message's parts wait
C9_Witness ==
    /\ Len(delivered) >= 2
    /\ Len(messageQueue) >= 2
    /\ arrival[Len(delivered)] < arrival[Len(delivered) + 1]

\* C10: once finished is set the generator is never left suspended; it
\* returns only with finished set and the queue drained, having yielded every
\* part enqueued until then; and, pulled by its consumer, it does return.
C10_FinishedReachesEnd ==
    /\ [](finished => pc # "waiting")
    /\ [][(pc # "done" /\ pc' = "done") =>
              (finished /\ messageQueue = << >> /\ delivered = enqueued)]_vars
    /\ (finished ~> pc = "done")

\* a terminal message arrived and the generator yielded its parts and returned
C10_Witness ==
    /\ pc = "done"
    /\ Len(delivered) >= 4
    /\ Last(delivered).type \in {"finish", "error"}

---------------------------------------------------------------------------
(* Properties of the aggregated path *)

RECURSIVE ConcatResponses(_)
\* the content of the response messages of h, concatenated in order
ConcatResponses(h) ==
    IF h = << >> THEN << >>
    ELSE (IF Head(h).type = "response" THEN Text(Head(h).content) ELSE << >>)
         \o ConcatResponses(Tail(h))

\* the step in which ws.onmessage of generateResponse handles a message of type t
GenHandles(t) ==
    /\ Len(received') = Len(received) + 1
    /\ Last(received').type = t

\* C11: in the aggregated path a complete message arriving while the call is
\* pending resolves it, and doGenerate returns, with finishReason "stop" and
\* the text made of the content of the response messages received before it,
\* in arrival order; a resolved call always holds the text of the response
\* messages before the first complete, whatever tool messages came between.
C11_AggregatedText ==
    /\ [](promise.state = "resolved" =>
            \E k \in 1..Len(received) :
                /\ received[k].type = "complete"
                /\ \A j \in 1..(k - 1) : received[j].type # "complete"
                /\ promise.text = ConcatResponses(SubSeq(received, 1, k - 1))
                /\ promise.finishReason = "stop"
                /\ request.pc = "returned")
    /\ [][promise.state = "pending" /\ GenHandles("complete") =>
            /\ promise' = Resolved(ConcatResponses(received), "stop")
            /\ request'.pc = "returned"]_vars

\* a chunk, the result of a tool and then complete: the text is the chunk
C11_Witness ==
    /\ promise.state = "resolved"
    /\ promise.text = << "a" >>
    /\ \E j \in 1..Len(received) :
           received[j].type = "tool_response" /\ received[j].result # ""

\* C12: in the aggregated path an error message arriving while the call is
\* pending rejects it, and doGenerate throws, with an error that carries the
\* remote's message, the address, the session identifier and the outbound
\* message; a rejected call has no text result.
C12_AggregatedError ==
    /\ [](promise.state = "rejected" =>
            /\ promise.text = << >>
            /\ promise.finishReason = ""
            /\ request.pc = "threw")
    /\ [][promise.state = "pending" /\ GenHandles("error") =>
            /\ promise'.state = "rejected"
            /\ promise'.error.kind = "APICallError"
            /\ Last(received').content # "" =>
                   promise'.error.message = Last(received').content
            /\ promise'.error.wsUrl = WsUrl
            /\ promise'.error.sessionId = sessionId
            /\ promise'.error.lastMessage = UserMessage
            /\ request'.pc = "threw"]_vars

\* text had been received when the error with the remote's message arrived
C12_Witness ==
    /\ promise.state = "rejected"
    /\ promise.error.kind = "APICallError"
    /\ promise.error.message = "boom"
    /\ responseText # << >>

\* C13: in the aggregated path the response timeout fires only when neither
\* complete nor error has arrived; when it fires the call is rejected with a
\* timeout error carrying the session identifier and the outbound message,
\* doGenerate throws and the socket is no longer open.
C13_AggregatedTimeout ==
    /\ [](genTimeout = "fired" =>
            /\ promise = Rejected(CreateTimeoutError(sessionId, UserMessage))
            /\ request.pc = "threw"
            /\ ws \in {"closing", "closed"})
    /\ [][genTimeout # "fired" /\ genTimeout' = "fired" =>
            /\ promise.state = "pending"
            /\ \A i \in 1..Len(received) :
                   received[i].type \notin {"complete", "error"}
            /\ promise'.error.kind = "TimeoutError"]_vars

\* the timeout fired after text had arrived and the socket has closed
C13_Witness ==
    /\ genTimeout = "fired"
    /\ promise.error.kind = "TimeoutError"
    /\ responseText # << >>
    /\ ws = "closed"

---------------------------------------------------------------------------
(* Properties of a request: ignored messages, the connection, the session *)

\* the step in which ws.onmessage of streamResponse handles a message it ignores
StreamIgnores ==
    /\ handlers = "stream"
    /\ scripted
    /\ nrecv' = nrecv + 1
    /\ script[nrecv + 1].type \in IgnoredTypes

\* the step in which ws.onmessage of generateResponse handles a message it ignores
GenIgnores ==
    /\ Len(received') = Len(received) + 1
    /\ Last(received').type \in IgnoredTypes

\* C14: handling a message that cannot be decoded, has an unknown tag or has
\* the tag thinking or cancelled changes nothing but the count of messages
\* handled: in streamResponse the lifecycle state, the queue, the waiter,
\* the parts enqueued and delivered, finished, the timer, the socket and the
\* generator stay as they are; in generateResponse the text, the promise,
\* the timer, the socket and doGenerate stay as they are.
C14_IgnoredMessages ==
    [][/\ StreamIgnores =>
            UNCHANGED << textStartEmitted, currentStreamingMessage, pendingTextStart,
                         messageQueue, resolveNext, finished, timer, ws, pc, nextId,
                         transportFailed, enqueued, arrival, delivered, request >>
       /\ GenIgnores =>
            UNCHANGED << responseText, promise, genTimeout, ws, request >>]_vars

\* a stream that ran to its finish part over a thinking and an undecodable message
C14_Witness ==
    /\ handlers = "stream"
    /\ nrecv = Len(script)
    /\ \E i, j \in 1..Len(script) :
           script[i].type = "thinking" /\ script[j].type = "malformed"
    /\ delivered # << >>
    /\ Last(delivered).type = "finish"

\* C15: when a request has ended (doGenerate returned or threw; the generator
\* of streamResponse is done, or its response timeout fired) its socket is not
\* left connecting or open.
C15_ConnectionClosedAtEnd ==
    /\ request.kind = "generate" /\ request.pc \in {"returned", "threw"} =>
           ws \notin {"connecting", "open"}
    /\ request.kind = "stream" /\ (pc = "done" \/ timer = "fired") =>
           ws \notin {"connecting", "open"}

\* C16: when createWebSocket rejects (timeout or transport error) the request
\* throws: no message has been sent, neither streamResponse nor
\* generateResponse has started, and no part exists.
C16_ConnectFailureFailsRequest ==
    connPromise.state = "rejected" =>
        /\ connPromise.error.kind = "ConnectionError"
        /\ request.pc = "threw"
        /\ outbound = << >>
        /\ handlers = "connect"
        /\ timer = "none" /\ genTimeout = "none" /\ pc = "none"
        /\ enqueued = << >> /\ delivered = << >> /\ messageQueue = << >>
        /\ nrecv = 0 /\ received = << >>

\* doStream threw on the connection timeout
C16_Witness ==
    /\ request = [kind |-> "stream", pc |-> "threw"]
    /\ connTimeout = "fired"
    /\ connPromise.state = "rejected"

\* C17: a call of createWebSocket makes one socket and never another; its
\* promise is settled once, by the first event: open resolves it and clears
\* the timer, a transport error rejects it and clears the timer, the timer
\* firing rejects it with the timeout error and closes the socket; while it
\* is pending the timer is armed, and nothing changes it once settled.
C17_OneAttemptOneOutcome ==
    /\ [](/\ attempts = (IF connTimeout = "none" THEN 0 ELSE 1)
          /\ connPromise.state = "pending" /\ attempts = 1 => connTimeout = "armed"
          /\ connPromise.state = "resolved" => connTimeout = "cleared"
          /\ connPromise.state = "rejected" => connTimeout \in {"cleared", "fired"})
    /\ [][/\ connPromise.state # "pending" => connPromise' = connPromise
          /\ connPromise.state = "pending" /\ ws = "connecting" /\ ws' = "open" =>
                 connPromise'.state = "resolved" /\ connTimeout' = "cleared"
          /\ connPromise.state = "pending" /\ ws = "connecting" /\ ws' = "closed" =>
                 /\ connPromise'.error.message = "Failed to connect to Goose server"
                 /\ connTimeout' = "cleared"
          /\ connTimeout = "armed" /\ connTimeout' = "fired" =>
                 /\ connPromise.state = "pending"
                 /\ connPromise'.error.message = "Connection timeout"
                 /\ ws = "connecting" /\ ws' = "closing"]_vars

\* the timeout decided, and the error of the abandoned handshake came after it
C17_Witness ==
    /\ connTimeout = "fired"
    /\ connPromise.error.message = "Connection timeout"
    /\ ws = "closed"
    /\ attempts = 1

\* C18: a socket exists only after the request's ensureSession call has
\* returned; when that call throws, the request throws, and no socket is
\* made and no message sent.
C18_SessionBeforeConnection ==
    /\ [](/\ (ws # "none" \/ attempts # 0 \/ outbound # << >>) =>
                 calls[RequestCall].pc = "done"
          /\ calls[RequestCall].pc = "failed" =>
                 /\ request.pc \in {"ensureSession", "threw"}
                 /\ ws = "none" /\ attempts = 0 /\ outbound = << >>)
    /\ [][calls[RequestCall].pc = "failed" /\ request' # request =>
              request'.pc = "threw"]_vars

\* the supplied identifier was invalid and no session could be created
C18_Witness ==
    /\ calls[RequestCall].pc = "failed"
    /\ calls[RequestCall].path = "invalid"
    /\ request.pc = "threw"

\* an identifier the remote created, unlike any another call obtained from it
Fresh(r, others) ==
    /\ r.sessionId.src = "remote"
    /\ \A o \in others : o.pc = "done" /\ o.path # "cached" => o.sessionId # r.sessionId

\* the result r of a finished call against what the remote answered it
ResultMatchesBranch(r, others) ==
    r.pc = "done" =>
        /\ r.path \in {"cached", "valid", "invalid", "absent"}
        /\ r.path = "valid" =>
               /\ settings.sessionId # EmptySessionId
               /\ r.sessionId = settings.sessionId
               /\ ~r.oldSessionInvalidated
        /\ r.path = "invalid" =>
               /\ settings.sessionId # EmptySessionId
               /\ Fresh(r, others)
               /\ r.oldSessionInvalidated
        /\ r.path = "absent" =>
               /\ settings.sessionId = EmptySessionId
               /\ Fresh(r, others)
               /\ ~r.oldSessionInvalidated
        /\ r.path = "cached" => ~r.oldSessionInvalidated
        /\ r.oldSessionInvalidated => r.path = "invalid"

C20_Idempotent ==
    [][\A c \in Calls :
          (/\ calls[c].pc = "idle" /\ calls'[c].pc # "idle"
           /\ \E d \in Calls : calls[d].pc = "done")
          => /\ calls'[c].pc = "done"
             /\ \A d \in Calls : calls[d].pc = "done" =>
                    calls'[c].sessionId = calls[d].sessionId
             /\ validations' = validations
             /\ creations' = creations]_vars

\* with assumeSessionValid and a supplied sessionId no call sends a request
C20_AssumedSkipsValidation ==
    settings.assumeSessionValid /\ settings.sessionId # EmptySessionId =>
        /\ validations = 0 /\ creations = 0
        /\ \A c \in Calls : calls[c].pc # "idle" =>
               calls[c] = Call("done", FALSE, settings.sessionId, "cached")

---------------------------------------------------------------------------
(* Properties of tool identifiers *)

ToolTypes == {"tool-call", "tool-result"}

\* the tool-result at j answers the tool-call at i: it is the next tool part
Answers(parts, i, j) ==
    /\ i < j
    /\ parts[i].type = "tool-call"
    /\ parts[j].type = "tool-result"
    /\ \A k \in (i + 1)..(j - 1) : parts[k].type \notin ToolTypes

\* C23: when the server gave no id on a tool_request and none on its
\* tool_response, the tool-call and the tool-result emitted for them carry
\* the same generated toolCallId.
C23_GeneratedToolCallIdShared ==
    \A i, j \in DOMAIN enqueued :
        (/\ Answers(enqueued, i, j)
         /\ enqueued[i].id.src = "gen"
         /\ enqueued[j].id.src = "gen") =>
            enqueued[i].id = enqueued[j].id

---------------------------------------------------------------------------
(* Properties of the model instance *)

\* C21: a model constructed with a sessionId setting uses one session
\* identifier across its requests: the ensureSession calls that have
\* returned all returned the same identifier.
C21_SameSessionIdAcrossRequests ==
    settings.sessionId # EmptySessionId =>
        \A c, d \in Calls :
            calls[c].pc = "done" /\ calls[d].pc = "done" =>
                calls[c].sessionId = calls[d].sessionId

\* immediately after construction the model holds the supplied identifier
C21_HeldAfterConstruction ==
    (settings.sessionId # EmptySessionId /\ creations = 0) =>
        sessionId = settings.sessionId

\* C22: a model constructed without a sessionId setting holds, before any
\* request has been made, a non-empty session identifier.
C22_GeneratedAtConstruction ==
    (/\ settings.sessionId = EmptySessionId
     /\ \A c \in Calls : calls[c].pc = "idle") =>
        sessionId # EmptySessionId

---------------------------------------------------------------------------
(* Properties of convertPromptToText *)

IsSystemMessage(m) == m.kind # "null" /\ m.role = "system" /\ m.kind = "string"

\* the texts of the system messages of the prompt, in the order of the prompt
SystemTexts(entries) ==
    LET sys == SelectSeq(entries, IsSystemMessage)
    IN  [i \in 1..Len(sys) |-> sys[i].str]

IsSystemText(c) == c \in {"s1", "s2"}

IsMessageText(c) == c \in {"a", "b", "c", "d"}

\* C24: every system message is rendered as "System: " and its text, ahead
\* of every user and assistant message, and several system messages are
\* rendered in the order they have in the prompt.
C24_SystemMessagesFirstInOrder ==
    (callOutcome = "returned" /\ prompt.kind = "array") =>
        /\ SelectSeq(returnedText, IsSystemText) = SystemTexts(prompt.entries)
        /\ \A i \in DOMAIN returnedText :
               IsSystemText(returnedText[i]) =>
                   /\ i > 1
                   /\ returnedText[i - 1] = SystemPrefix
                   /\ \A j \in 1..(i - 1) : ~IsMessageText(returnedText[j])

\* the same without the order: every system message is rendered once, with
\* its prefix, ahead of the user and assistant messages
C24_SystemMessagesFirst ==
    (callOutcome = "returned" /\ prompt.kind = "array") =>
        /\ \A c \in {"s1", "s2"} :
               Len(SelectSeq(returnedText, LAMBDA t : t = c))
                   = Len(SelectSeq(SystemTexts(prompt.entries), LAMBDA t : t = c))
        /\ \A i \in DOMAIN returnedText :
               IsSystemText(returnedText[i]) =>
                   /\ i > 1
                   /\ returnedText[i - 1] = SystemPrefix
                   /\ \A j \in 1..(i - 1) : ~IsMessageText(returnedText[j])

\* the texts of the text-typed parts, in order, with a space between two
RECURSIVE SpacedTexts(_)
SpacedTexts(parts) ==
    IF parts = << >> THEN << >>
    ELSE LET h == Head(parts)
             rest == SpacedTexts(Tail(parts))
         IN  IF h.type = "text" /\ h.text # ""
             THEN IF rest = << >> THEN << h.text >> ELSE << h.text, Space >> \o rest
             ELSE rest

\* a user or assistant message with a string, or with some text part
IsRendered(m) ==
    /\ m.kind # "null"
    /\ m.role \in {"user", "assistant"}
    /\ \/ m.kind = "string"
       \/ /\ m.kind = "array"
          /\ \E i \in DOMAIN m.parts : m.parts[i].type = "text" /\ m.parts[i].text # ""

Rendering(m) == IF m.kind = "string" THEN Text(m.str) ELSE SpacedTexts(m.parts)

\* the renderings of the user and assistant messages, in the order of the prompt
Renderings(entries) ==
    LET kept == SelectSeq(entries, IsRendered)
    IN  [i \in 1..Len(kept) |-> Rendering(kept[i])]

\* the strings with a blank line between two
RECURSIVE Separated(_)
Separated(strs) ==
    IF strs = << >> THEN << >>
    ELSE IF Len(strs) = 1 THEN strs[1]
    ELSE Separated(SubSeq(strs, 1, Len(strs) - 1)) \o << BlankLine >> \o Last(strs)

\* the system lines of the prompt, in any order
SystemLines(entries) ==
    LET texts == SystemTexts(entries)
        n == Len(texts)
    IN  {[i \in 1..n |-> << SystemPrefix >> \o Text(texts[p[i]])] :
            p \in {q \in [1..n -> 1..n] : \A i, j \in 1..n : q[i] = q[j] => i = j}}

\* C25: the user and assistant messages are rendered in the order of the
\* prompt, a multi-part message as its text parts joined by single spaces
\* without its other parts, the rendered messages are joined by a blank
\* line, entries that are no message are skipped, and the empty, null or
\* undefined prompt gives the empty string.
C25_MessagesRendered ==
    callOutcome = "returned" =>
        /\ prompt.kind \in {"null", "undefined"} => returnedText = << >>
        /\ prompt.kind = "string" => returnedText = prompt.str
        /\ prompt.kind = "array" =>
               \E sys \in SystemLines(prompt.entries) :
                   returnedText = Separated(sys \o Renderings(prompt.entries))

C25_Witness ==
    /\ callOutcome = "returned"
    /\ prompt = Prompt("array",
                       << PromptMessage("none", "null", "", << >>),
                          PromptMessage("user", "array", "",
                                        << ContentPart("text", "c"),
                                           ContentPart("image", ""),
                                           ContentPart("text", "d") >>),
                          PromptMessage("assistant", "string", "b", << >>) >>,
                       << >>)
    /\ returnedText = << "c", Space, "d", BlankLine, "b" >>

---------------------------------------------------------------------------
(* Properties of extractJson *)

\* some brace has a closing brace after it, or some bracket a closing bracket
HasSpan(t) ==
    \E i, j \in DOMAIN t :
        i < j /\ ((t[i] = "{" /\ t[j] = "}") \/ (t[i] = "[" /\ t[j] = "]"))

\* the candidate span: from the first opening character that has its closing
\* character somewhere after it, to the last such closing character
Candidate(t) ==
    LET opens == {i \in DOMAIN t :
                     \E j \in DOMAIN t : i < j /\ t[i] \in {"{", "["}
                                         /\ t[j] = Closing(t[i])}
        first == CHOOSE i \in opens : \A k \in opens : i <= k
        closes == {j \in DOMAIN t : first < j /\ t[j] = Closing(t[first])}
        last == CHOOSE j \in closes : \A k \in closes : k <= j
    IN  SubSeq(t, first, last)

\* C26: extractJson never throws; a text with no object or array span is
\* returned unchanged, and so is a text whose candidate span is not JSON.
C26_NeverThrows ==
    /\ callOutcome # "threw"
    /\ callOutcome = "returned" =>
           /\ ~HasSpan(inputText) => returnedText = inputText
           /\ (HasSpan(inputText) /\ ~IsJson(Candidate(inputText))) =>
                  returnedText = inputText

C26_Witness ==
    /\ callOutcome = "returned"
    /\ inputText = << "x", "{", "x", "}" >>
    /\ returnedText = inputText

\* the substrings of the text that are JSON values
JsonSpans(t) ==
    {s \in (DOMAIN t) \X (DOMAIN t) : s[1] < s[2] /\ IsJson(SubSeq(t, s[1], s[2]))}

\* the JSON value that starts first in the text
FirstJson(t) ==
    LET s == CHOOSE a \in JsonSpans(t) : \A b \in JsonSpans(t) : a[1] <= b[1]
    IN  SubSeq(t, s[1], s[2])

\* C27: applied to a text that holds a JSON value, in whatever prose,
\* extractJson returns the first JSON value of the text.
C27_FirstJsonValue ==
    (callOutcome = "returned" /\ JsonSpans(inputText) # {}) =>
        returnedText = FirstJson(inputText)

\* the same for a text whose only brackets and braces are those of one value
C27_PlainProse ==
    (/\ callOutcome = "returned"
     /\ Cardinality(JsonSpans(inputText)) = 1
     /\ \A i \in DOMAIN inputText :
            inputText[i] \in {"{", "}", "[", "]"} =>
                \E s \in JsonSpans(inputText) : s[1] <= i /\ i <= s[2]) =>
        returnedText = FirstJson(inputText)

---------------------------------------------------------------------------
(* Properties of JSON-mode streaming *)

IsTextChunk(c) == c.type \in TextTypes

\* the text parts streamResponse emitted do not reach the caller
OriginalTextFiltered ==
    \A i \in DOMAIN controller, j \in DOMAIN enqueued :
        IsTextChunk(controller[i]) => controller[i].id # enqueued[j].id

\* just before position f the caller got one text sequence with one id
\* that no part of the stream carries, holding the JSON of the text
JsonSequenceBefore(f) ==
    /\ f > 3
    /\ controller[f - 3].type = "text-start"
    /\ controller[f - 2].type = "text-delta"
    /\ controller[f - 1].type = "text-end"
    /\ controller[f - 3].id = controller[f - 2].id
    /\ controller[f - 2].id = controller[f - 1].id
    /\ controller[f - 2].delta = ExtractJson(accumulatedText).text
    /\ Len(SelectSeq(controller, IsTextChunk)) = 3

\* C28: in JSON mode the text parts of the stream are held back, and when
\* the stream finishes with some accumulated text the caller gets, before
\* the finish part, one new text-start, text-delta and text-end with one
\* new id, carrying the JSON-only text.
C28_JsonSequenceOnFinish ==
    responseFormat = "json" =>
        /\ OriginalTextFiltered
        /\ \A f \in DOMAIN controller :
               (controller[f].type = "finish" /\ accumulatedText # << >>) =>
                   JsonSequenceBefore(f)

\* the same, when extractJson returns something else than the whole text
C28_WhenExtracted ==
    responseFormat = "json" =>
        /\ OriginalTextFiltered
        /\ \A f \in DOMAIN controller :
               (/\ controller[f].type = "finish"
                /\ ExtractJson(accumulatedText).text # accumulatedText) =>
                   JsonSequenceBefore(f)

---------------------------------------------------------------------------
(* Properties of the provider *)

\* C29: every setting of a model made through a provider is the model-level
\* value if one was given, else the provider-level value if one was given,
\* else the default: ws://localhost:8080/ws, 30000 and 120000.
C29_SettingsPrecedence ==
    callOutcome = "returned" =>
        \A k \in SettingKeys :
            mergedSettings[k] =
                IF modelSettings[k] # Absent THEN modelSettings[k]
                ELSE IF providerSettings[k] # Absent THEN providerSettings[k]
                ELSE CASE k = "wsUrl" -> "ws://localhost:8080/ws"
                       [] k = "connectionTimeout" -> "30000"
                       [] k = "responseTimeout" -> "120000"
                       [] OTHER -> Absent

C29_Witness ==
    /\ callOutcome = "returned"
    /\ providerSettings = [wsUrl |-> "ws://provider:8000/ws", connectionTimeout |-> "1000",
                           responseTimeout |-> Absent, sessionId |-> "provider-session"]
    /\ modelSettings = [wsUrl |-> "ws://model:9000/ws", connectionTimeout |-> Absent,
                        responseTimeout |-> Absent, sessionId |-> "model-session"]
    /\ mergedSettings = [wsUrl |-> "ws://model:9000/ws", connectionTimeout |-> "1000",
                         responseTimeout |-> "120000", sessionId |-> "model-session"]

---------------------------------------------------------------------------
(* Properties of the outbound message *)

\* at most one message has been sent; it is a "message" with the prompt and
\* the session identifier ensureSession returned, sent on an established
\* connection; a request that is in its response has sent it
OneOutbound ==
    /\ Len(outbound) <= 1
    /\ outbound # << >> =>
           /\ outbound[1] = [type |-> "message", content |-> UserMessage,
                             session_id |-> calls[RequestCall].sessionId]
           /\ calls[RequestCall].pc = "done"
           /\ connPromise.state = "resolved"
    /\ (nrecv > 0 \/ received # << >>) => Len(outbound) = 1
    /\ request.pc \in {"generateResponse", "returned"} => Len(outbound) = 1

\* C30: a request sends exactly one outbound message, of type "message",
\* with the flattened prompt and the session identifier; it is sent once the
\* connection is established and before any inbound message is handled.
C30_OneOutboundMessage ==
    /\ []OneOutbound
    /\ [][outbound' # outbound =>
              /\ outbound = << >>
              /\ ws' = "open"
              /\ connPromise'.state = "resolved"
              /\ nrecv' = 0
              /\ received' = << >>]_vars

C30_Witness ==
    /\ outbound = << [type |-> "message", content |-> UserMessage,
                      session_id |-> CreatedId(RequestCall)] >>
    /\ nrecv > 0
    /\ request = [kind |-> "stream", pc |-> "returned"]

---------------------------------------------------------------------------
(* Properties of the tracker on tool messages *)

\* the parts the step has given to enqueueStreamPart
NewParts == SubSeq(enqueued', Len(enqueued) + 1, Len(enqueued'))

\* the tracker holds no streaming message and will open one on the next text
Idle(started, cur) == ~started /\ cur = NoId

\* the identifiers of the text parts emitted so far
TextIds == {enqueued[i].id : i \in {j \in DOMAIN enqueued : enqueued[j].type \in TextTypes}}

\* from Idle, a response with content opens a segment with an id not seen yet
OpensFresh ==
    (OnResponse /\ Idle(textStartEmitted, currentStreamingMessage)
     /\ enqueued' # enqueued) =>
        /\ Len(NewParts) = 2
        /\ NewParts[1].type = "text-start"
        /\ NewParts[2].type = "text-delta"
        /\ NewParts[1].id = NewParts[2].id
        /\ NewParts[1].id \notin TextIds

\* C31: the handler of a tool_response emits exactly one tool-result part
\* and leaves the tracker Idle whatever its state was, and a response
\* handled in the Idle state opens a segment with a fresh id.
C31_ToolResponseEmitsResult ==
    [][/\ OnToolResponse =>
              /\ Len(NewParts) = 1
              /\ NewParts[1].type = "tool-result"
              /\ Idle(textStartEmitted', currentStreamingMessage')
       /\ OpensFresh]_vars

\* the same without the count of parts: at most one tool-result, Idle after
C31_ToolResponseResets ==
    [][/\ OnToolResponse =>
              /\ Len(NewParts) <= 1
              /\ \A i \in DOMAIN NewParts : NewParts[i].type = "tool-result"
              /\ Idle(textStartEmitted', currentStreamingMessage')
       /\ OpensFresh]_vars

\* C32: the handler of a tool_request emits, with a streaming message i
\* open, text-end(i) and then the tool-call, and without one the tool-call
\* alone; the tracker is Idle afterwards.
C32_ToolRequestClosesSegment ==
    [][OnToolRequest =>
           /\ IF currentStreamingMessage # NoId
              THEN /\ Len(NewParts) = 2
                   /\ NewParts[1] = Part("text-end", currentStreamingMessage, "")
                   /\ NewParts[2].type = "tool-call"
              ELSE /\ Len(NewParts) = 1
                   /\ NewParts[1].type = "tool-call"
           /\ Idle(textStartEmitted', currentStreamingMessage')]_vars

\* a tool_request was handled with a streaming message open, and one without
C32_Witness ==
    \E i, j \in DOMAIN enqueued :
        /\ i + 1 < j
        /\ enqueued[i].type = "text-end"
        /\ enqueued[i + 1].type = "tool-call"
        /\ arrival[i] = arrival[i + 1]
        /\ enqueued[j].type = "tool-call"
        /\ enqueued[j - 1].type = "tool-call"
        /\ Idle(textStartEmitted, currentStreamingMessage)

---------------------------------------------------------------------------
(* Properties of the end of a stream *)

TerminalTypes == {"finish", "error"}

\* the positions of the finish and error parts in a sequence of parts
Terminals(parts) == {i \in DOMAIN parts : parts[i].type \in TerminalTypes}

\* C33: a stream emits at most one finish or error part, and once it is
\* emitted no further part is emitted or delivered, whatever is received
\* while the connection is open.
C33_TerminalState ==
    /\ Cardinality(Terminals(enqueued)) <= 1
    /\ \A i \in Terminals(enqueued) : i = Len(enqueued)
    /\ \A i \in Terminals(delivered) : i = Len(delivered)

---------------------------------------------------------------------------
(* Properties of the hand-over between the handlers and the generator *)

\* the parts of the message that brought the part delivered last, which the
\* generator has not taken yet: their positions in the emission order (the
\* part ws.onerror creates belongs to no message)
RestOfBatch ==
    IF delivered = << >> THEN {}
    ELSE {j \in DOMAIN enqueued :
              /\ j > Len(delivered)
              /\ arrival[j] = arrival[Len(delivered)]
              /\ enqueued[j] # ConnectionErrorPart}

\* C34: the parts of one inbound message are queued as one batch: a
\* text-start is queued together with its text-delta, and once the consumer
\* has been given a part of a message the rest of that message's parts are
\* next in the queue, with no end of the stream in between.
C34_AtomicBatches ==
    /\ pendingTextStart = NoPart
    /\ \A i \in DOMAIN messageQueue :
           messageQueue[i].type = "text-start" =>
               /\ i < Len(messageQueue)
               /\ messageQueue[i + 1].type = "text-delta"
               /\ messageQueue[i + 1].id = messageQueue[i].id
    /\ ~cancelled =>
           \A j \in RestOfBatch :
               /\ pc # "done"
               /\ j - Len(delivered) <= Len(messageQueue)
               /\ messageQueue[j - Len(delivered)] = enqueued[j]

\* the consumer, woken by a text-end, finds the tool-call or the finish of
\* the same message queued behind it
C34_Witness ==
    /\ pc = "running"
    /\ delivered # << >>
    /\ Last(delivered).type = "text-end"
    /\ RestOfBatch # {}
    /\ \A j \in RestOfBatch : enqueued[j].type \in {"tool-call", "finish"}

\* C35: the error part ws.onerror creates is appended to the queue like
\* every other part, so that it is delivered whether or not the generator
\* was suspended, as the last part before the end of the stream.
C35_ErrorPartQueued ==
    transportFailed =>
        /\ \E i \in DOMAIN enqueued : enqueued[i] = ConnectionErrorPart
        /\ pc = "done" =>
               /\ delivered # << >>
               /\ Last(delivered) = ConnectionErrorPart

\* a text-end of the segment opened at position i lies before position j
ClosedBefore(parts, i, j) ==
    \E k \in DOMAIN parts :
        /\ i < k /\ k < j
        /\ parts[k].type = "text-end"
        /\ parts[k].id = parts[i].id

\* C36: every text-start emitted is followed by a text-end with the same
\* id before the finish or error part, and before the end of the stream.
C36_SegmentsClosed ==
    \A i \in DOMAIN enqueued :
        enqueued[i].type = "text-start" =>
            /\ \A j \in Terminals(enqueued) :
                   i < j => ClosedBefore(enqueued, i, j)
            /\ (pc = "done" /\ ~cancelled) =>
                   ClosedBefore(enqueued, i, Len(enqueued) + 1)

\* C37: between callbacks, a generator suspended in its await has an empty
\* queue and its callback in resolveNext; with resolveNext unset the
\* generator is not suspended.
C37_NoLostWakeUp ==
    /\ pc = "waiting" => (messageQueue = << >> /\ resolveNext)
    /\ ~resolveNext => pc # "waiting"

\* the generator suspended again after a delivery, the timeout having fired
C37_Witness ==
    /\ pc = "waiting"
    /\ resolveNext
    /\ delivered # << >>
    /\ timer = "fired"

---------------------------------------------------------------------------
(* The streaming path against the aggregated path *)

\* the text of the text-delta parts, in order
RECURSIVE DeltaText(_)
DeltaText(parts) ==
    IF parts = << >> THEN << >>
    ELSE (IF Head(parts).type = "text-delta" THEN Text(Head(parts).data) ELSE << >>)
         \o DeltaText(Tail(parts))

\* generateResponse given the messages of the script: its promise
Aggregated(sc) ==
    GenerateOnMessages(
        [responseText |-> << >>, promise |-> Pending, timeout |-> "armed",
         ws |-> "open", request |-> request], sc).promise

\* every message of the script was handled and every part delivered
AllDelivered == scripted /\ nrecv = Len(script) /\ messageQueue = << >>

\* C38: for one sequence of inbound messages ending in its first complete,
\* the text of the text-delta parts the streaming path delivers is the text
\* the aggregated path returns.
C38_SameTextOnBothPaths ==
    (AllDelivered /\ Aggregated(script).state = "resolved") =>
        DeltaText(delivered) = Aggregated(script).text

\* text before and after a tool call and its result, all of it delivered
C38_Witness ==
    /\ AllDelivered
    /\ Aggregated(script).state = "resolved"
    /\ Len(DeltaText(delivered)) = 2
    /\ \E i \in DOMAIN delivered : delivered[i].type = "tool-result"

---------------------------------------------------------------------------
(* Settlement of the aggregated call *)

\* C39: a generateResponse call settles once and always eventually: the
\* first of complete, error, transport error, abnormal close and timeout
\* decides the outcome, no later event changes it, and a call still pending
\* has its timer armed, which fires.
C39_SettlesOnceEventually ==
    /\ [][promise.state # "pending" => promise' = promise]_vars
    /\ [](promise.state = "pending" => genTimeout = "armed")
    /\ <>(promise.state # "pending")

\* the timer settled a call whose socket has been closed
C39_Witness ==
    /\ promise.state = "rejected"
    /\ genTimeout = "fired"
    /\ ws = "closed"
    /\ received # << >>

---------------------------------------------------------------------------
(* Requests running concurrently on one model instance *)

\* the calls of ensureSession that returned a session created for them
CreatedSessions ==
    {c \in Calls : calls[c].pc = "done" /\ calls[c].sessionId = CreatedId(c)}

\* C40: with requests running concurrently on a model whose session is not
\* established, at most one session is created, and the session_id a
\* request sends is the identifier its own ensureSession call returned.
C40_OneSessionOwnIdentifier ==
    /\ Cardinality(CreatedSessions) <= 1
    /\ \A c \in Calls :
           sentSessionIds[c] # NoId => sentSessionIds[c] = calls[c].sessionId

\* the second half alone
C40_OwnIdentifierSent ==
    \A c \in Calls :
        sentSessionIds[c] # NoId => sentSessionIds[c] = calls[c].sessionId

---------------------------------------------------------------------------
(* Specifications *)

Next ==
    \/ OnResponse
    \/ OnToolRequest
    \/ OnToolResponse
    \/ OnComplete
    \/ OnErrorMessage
    \/ OnIgnored
    \/ OnTransportError
    \/ Timeout
    \/ SocketClosed
    \/ GeneratorYield
    \/ GeneratorAwait
    \/ GeneratorReturn

\* every interleaving of callbacks and generator steps, any inbound messages
Spec == Init /\ [][Next]_vars

\* the same machine replaying one scenario's inbound messages
SpecScripted == InitScripted /\ [][Next]_vars

\* a scenario streamed in JSON mode
SpecJson == InitJson /\ [][Next]_vars

\* the consumer of the generator (the for await loop of
\* createStreamFromAsyncGenerator) keeps pulling: a runnable generator runs
Pull == GeneratorYield \/ GeneratorAwait \/ GeneratorReturn

FairSpec == Spec /\ WF_vars(Pull)

\* the aggregated path alone
NextGenerate == GenOnMessage \/ GenOnError \/ GenOnClose \/ GenTimeout

SpecGenerate == InitGenerate /\ [][NextGenerate]_vars

\* ensureSession calls on one model instance, and validateGooseSession
NextSession ==
    \/ \E c \in Calls : EnsureSessionCall(c)
    \/ \E c \in Calls : ValidationReturns(c)
    \/ \E c \in Calls : CreationReturns(c)
    \/ ValidateGooseSessionCall

SpecSession == InitSessionOnly /\ [][NextSession]_vars

\* requests running concurrently on one model instance
NextConcurrent ==
    \/ \E c \in Calls : EnsureSessionCall(c)
    \/ \E c \in Calls : ValidationReturns(c)
    \/ \E c \in Calls : CreationReturns(c)
    \/ \E c \in Calls : RequestSends(c)

SpecConcurrent == InitSessionOnly /\ [][NextConcurrent]_vars

\* one request, from the call of doGenerate or doStream on
NextRequest ==
    \/ EnsureSessionCall(RequestCall)
    \/ ValidationReturns(RequestCall)
    \/ CreationReturns(RequestCall)
    \/ RequestConnect
    \/ ConnOnOpen
    \/ ConnOnError
    \/ ConnTimeout
    \/ ConsumerCancel
    \/ Next
    \/ NextGenerate

SpecRequest == InitRequest /\ [][NextRequest]_vars

\* convertPromptToText applied to a prompt
\* a timer that is armed fires: setTimeout runs its callback unless cleared
FairSpecGenerate == SpecGenerate /\ WF_vars(GenTimeout)

SpecCompare == InitCompare /\ [][Next]_vars

SpecPrompt == InitPrompt /\ [][ConvertCall]_vars

\* extractJson applied to a text
SpecExtract == InitExtract /\ [][ExtractCall]_vars

\* a provider is made and asked for a model
SpecProvider == InitProvider /\ [][ProviderCall]_vars

====
